---------------------------- MODULE Spec2Model ----------------------------
(***************************************************************************)
(* A model of the ubirch COSE signing service: the request adapter         *)
(* (handleRequest and its helpers), the COSE signer, the Protocol          *)
(* coordinator with its caches and SKID store, the SKID reconciler         *)
(* (loadSKIDs) and the relational identity store (DatabaseManager).        *)
(*                                                                         *)
(* Byte strings are sequences of numbers 0..255.  SHA-256, ECDSA, the key  *)
(* encrypter and the PEM codec are library code; they are modelled as free *)
(* constructors (a digest names what was hashed, a signature names the key *)
(* and the digest it was made from).                                       *)
(***************************************************************************)
EXTENDS Naturals, Integers, Sequences, FiniteSets, TLC

VARIABLES
    db,                    \* committed rows of the identity table
    txs,                   \* transaction handles: state and uncommitted rows
    dbOut,                 \* result of the last DatabaseManager call
    identityCache,         \* Protocol.identityCache
    uidCache,              \* Protocol.uidCache
    skidStore,             \* Protocol.skidStore (the published snapshot)
    certLoadFailCounter,   \* Protocol.certLoadFailCounter
    maxCertLoadFailCount,  \* package variable set by setInterval
    cycle,                 \* what the last reconciliation cycle did and found
    resp,                  \* the last HTTP exchange of handleRequest
    rec,                   \* the reconciler goroutine inside setSkidStore
    readers,               \* GetSKID callers, step by step
    skidStoreMutex,        \* Protocol.skidStoreMutex
    published,             \* the snapshots setSkidStore has assigned so far
    getters,               \* Protocol.GetIdentity callers, step by step
    proc,                  \* main: the cancellation signal, server, store, reconciler
    csrJobs,               \* submitCSROrLogError goroutines and what the backend got
    migration              \* the version table, and the Migrate runs so far

vars == <<db, txs, dbOut, identityCache, uidCache, skidStore,
          certLoadFailCounter, maxCertLoadFailCount, cycle, resp,
          rec, readers, skidStoreMutex, published, getters, proc, csrJobs,
          migration>>

(***************************************************************************)
(* Program constants                                                       *)
(***************************************************************************)
HashLen == 32
SkidLen == 8
maxDbConnAttempts == 5
COSE_Alg_Label == 1
COSE_ES256_ID == -7
COSE_Kid_Label == 4
COSE_Sign1_Tag == 18
\* "Signature1"
COSE_Sign1_Context == <<83, 105, 103, 110, 97, 116, 117, 114, 101, 49>>

BinType  == "application/octet-stream"
TextType == "text/plain"
JSONType == "application/json"
CBORType == "application/cbor"
HexEncoding == "hex"

StatusOK == 200
StatusBadRequest == 400
StatusUnauthorized == 401
StatusNotFound == 404
StatusInternalServerError == 500

ErrExists   == "entry already exists"
ErrNotExist == "entry does not exist"
NoErr == "nil"

(***************************************************************************)
(* Byte-string helpers                                                     *)
(***************************************************************************)

\* strings.ToLower on the header values the model uses
ToLower(s) ==
    CASE s = "Application/JSON" -> "application/json"
      [] s = "Text/Plain"       -> "text/plain"
      [] s = "HEX"              -> "hex"
      [] OTHER                  -> s

(***************************************************************************)
(* encoding/hex and encoding/base64 (StdEncoding), decoding side           *)
(***************************************************************************)
fromHexChar(c) ==
    IF c \in 48..57 THEN c - 48
    ELSE IF c \in 97..102 THEN c - 87
    ELSE IF c \in 65..70 THEN c - 55
    ELSE -1

\* hex.DecodeString: [err, bytes]
hex_DecodeString(s) ==
    IF Len(s) % 2 = 1 \/ \E i \in 1..Len(s) : fromHexChar(s[i]) = -1
    THEN [err |-> "hex", bytes |-> <<>>]
    ELSE [err |-> NoErr,
          bytes |-> [i \in 1..(Len(s) \div 2) |->
                        fromHexChar(s[2*i - 1]) * 16 + fromHexChar(s[2*i])]]

b64Value(c) ==
    IF c \in 65..90 THEN c - 65
    ELSE IF c \in 97..122 THEN c - 71
    ELSE IF c \in 48..57 THEN c + 4
    ELSE IF c = 43 THEN 62
    ELSE IF c = 47 THEN 63
    ELSE -1

b64IsNewline(c) == c \in {10, 13}

\* base64.StdEncoding.DecodeString: padded quanta of four characters, CR and
\* LF skipped, '=' only as the last one or two characters: [err, bytes]
base64_DecodeString(s0) ==
    LET decode(s, n, pad) ==
            LET byteAt(q, r) ==
                    IF r = 0
                    THEN b64Value(s[q + 1]) * 4 + (b64Value(s[q + 2]) \div 16)
                    ELSE IF r = 1
                    THEN (b64Value(s[q + 2]) % 16) * 16 + (b64Value(s[q + 3]) \div 4)
                    ELSE (b64Value(s[q + 3]) % 4) * 64 + b64Value(s[q + 4])
            IN  IF n % 4 # 0 \/ \E i \in 1..(n - pad) : b64Value(s[i]) = -1
                THEN [err |-> "base64", bytes |-> <<>>]
                ELSE [err |-> NoErr,
                      bytes |-> [j \in 1..((n \div 4) * 3 - pad) |->
                                    byteAt(4 * ((j - 1) \div 3), (j - 1) % 3)]]
        padded(s, n) ==
            decode(s, n, IF n >= 2 /\ s[n] = 61 /\ s[n-1] = 61 THEN 2
                         ELSE IF n >= 1 /\ s[n] = 61 THEN 1 ELSE 0)
        stripped(s) == padded(s, Len(s))
    IN  stripped(SelectSeq(s0, LAMBDA c : ~b64IsNewline(c)))

(***************************************************************************)
(* Canonical CBOR (fxamacker/cbor CanonicalEncOptions), encoding side      *)
(***************************************************************************)
cborHead(major, n) ==
    IF n < 24 THEN <<major * 32 + n>>
    ELSE IF n < 256 THEN <<major * 32 + 24, n>>
    ELSE <<major * 32 + 25, n \div 256, n % 256>>

cborBytes(b) == cborHead(2, Len(b)) \o b
cborText(t)  == cborHead(3, Len(t)) \o t

\* canonical key order: shorter encoded key first, then bytewise
RECURSIVE bytesLess(_, _)
bytesLess(a, b) ==
    IF a = <<>> THEN b # <<>>
    ELSE IF b = <<>> THEN FALSE
    ELSE IF Head(a) # Head(b) THEN Head(a) < Head(b)
    ELSE bytesLess(Tail(a), Tail(b))

canonicalLess(a, b) ==
    LET less(ea, eb) == Len(ea) < Len(eb) \/ (Len(ea) = Len(eb) /\ bytesLess(ea, eb))
    IN  less(cborText(a), cborText(b))

RECURSIVE cborMapPairs(_)
cborMapPairs(m) ==
    IF DOMAIN m = {} THEN <<>>
    ELSE LET from(k) ==
                 cborText(k) \o cborText(m[k])
                     \o cborMapPairs([x \in DOMAIN m \ {k} |-> m[x]])
         IN  from(CHOOSE x \in DOMAIN m :
                      \A y \in DOMAIN m \ {x} : canonicalLess(x, y))

\* encMode.Marshal(map[string]string)
cborMarshalStringMap(m) == cborHead(5, Cardinality(DOMAIN m)) \o cborMapPairs(m)

\* NewCoseSigner: encMode.Marshal(map[uint8]int8{COSE_Alg_Label: COSE_ES256_ID})
protectedHeader ==
    cborHead(5, 1) \o cborHead(0, COSE_Alg_Label) \o cborHead(1, -1 - COSE_ES256_ID)

(***************************************************************************)
(* encoding/json into map[string]string.  The parser covers flat objects   *)
(* whose member names and values are string literals without escapes or    *)
(* white space; every request body of the model is either such an object   *)
(* or a text that encoding/json rejects as well.                           *)
(***************************************************************************)
EmptyMap == [x \in {} |-> <<>>]
jsonFail == [err |-> "json", map |-> EmptyMap]

\* index of the next '"' at or after i, 0 when there is none
RECURSIVE jsonQuote(_, _)
jsonQuote(s, i) ==
    IF i > Len(s) THEN 0 ELSE IF s[i] = 34 THEN i ELSE jsonQuote(s, i + 1)

\* the string literal that starts at i: [ok, val, next]
jsonString(s, i) ==
    IF i > Len(s) \/ s[i] # 34 THEN [ok |-> FALSE, val |-> <<>>, next |-> 0]
    ELSE LET closed(j) ==
                 IF j = 0 THEN [ok |-> FALSE, val |-> <<>>, next |-> 0]
                 ELSE [ok |-> TRUE, val |-> SubSeq(s, i + 1, j - 1), next |-> j + 1]
         IN  closed(jsonQuote(s, i + 1))

RECURSIVE jsonMembers(_, _, _)
jsonMembers(s, i, m) ==
    LET after(v, m2) ==
            IF s[v.next] = 125
            THEN IF v.next = Len(s) THEN [err |-> NoErr, map |-> m2] ELSE jsonFail
            ELSE IF s[v.next] = 44 THEN jsonMembers(s, v.next + 1, m2)
            ELSE jsonFail
        value(k, v) ==
            IF ~v.ok \/ v.next > Len(s) THEN jsonFail
            ELSE after(v, [x \in DOMAIN m \cup {k.val} |->
                              IF x = k.val THEN v.val ELSE m[x]])
        name(k) ==
            IF ~k.ok \/ k.next > Len(s) \/ s[k.next] # 58 THEN jsonFail
            ELSE value(k, jsonString(s, k.next + 1))
    IN  name(jsonString(s, i))

json_Unmarshal(s) ==
    IF Len(s) < 2 \/ s[1] # 123 THEN jsonFail
    ELSE IF s = <<123, 125>> THEN [err |-> NoErr, map |-> EmptyMap]
    ELSE jsonMembers(s, 2, EmptyMap)

(***************************************************************************)
(* Key material.  A value is [form, k]: what kind of bytes it is and which *)
(* key it belongs to.  "junk" is bytes that are no PEM at all.             *)
(***************************************************************************)
Empty == [form |-> "empty", k |-> ""]
BytesLen(b) == IF b.form = "empty" THEN 0 ELSE 1

PrivPEM(k) == [form |-> "privPEM", k |-> k]
PubPEM(k)  == [form |-> "pubPEM", k |-> k]
PubRaw(k)  == [form |-> "pubRaw", k |-> k]
Junk(k)    == [form |-> "junk", k |-> k]

\* keyEncrypter.Encrypt / Decrypt: [err, bytes]
Encrypt(plain) ==
    [err |-> NoErr, bytes |-> [form |-> "enc", k |-> plain.form \o ":" \o plain.k]]

Decrypt(cipher) ==
    CASE cipher = Encrypt(PrivPEM("k1")).bytes -> [err |-> NoErr, bytes |-> PrivPEM("k1")]
      [] cipher = Encrypt(PrivPEM("k2")).bytes -> [err |-> NoErr, bytes |-> PrivPEM("k2")]
      [] cipher = Encrypt(Junk("j1")).bytes    -> [err |-> NoErr, bytes |-> Junk("j1")]
      [] cipher = Encrypt(Junk("j2")).bytes    -> [err |-> NoErr, bytes |-> Junk("j2")]
      [] OTHER -> [err |-> "decrypt", bytes |-> Empty]

\* ubirch.Crypto.PublicKeyPEMToBytes / PublicKeyBytesToPEM: [err, bytes]
PublicKeyPEMToBytes(pem) ==
    IF pem.form = "pubPEM" THEN [err |-> NoErr, bytes |-> PubRaw(pem.k)]
    ELSE [err |-> "unable to parse PEM", bytes |-> Empty]

PublicKeyBytesToPEM(raw) ==
    IF raw.form = "pubRaw" THEN [err |-> NoErr, bytes |-> PubPEM(raw.k)]
    ELSE [err |-> "unable to encode PEM", bytes |-> Empty]

\* crypto/sha256.Sum256 and a Sha256Sum copied from request bytes
sha256_Sum256(data) == [kind |-> "sha256", data |-> data]
Sha256Sum(bytes)    == [kind |-> "bytes", data |-> bytes]
ZeroSum == Sha256Sum([i \in 1..HashLen |-> 0])

NoSignature == [signer |-> "", hash |-> ZeroSum]

\* ubirch.Crypto.SignHash(privKeyPEM, hash): [err, signature]
SignHash(privateKeyPEM, hash) ==
    IF privateKeyPEM.form = "privPEM"
    THEN [err |-> NoErr, signature |-> [signer |-> privateKeyPEM.k, hash |-> hash]]
    ELSE [err |-> "unable to parse private key", signature |-> NoSignature]

\* ubirch.Crypto.Verify(pubKeyPEM, data, signature): hashes data, then checks
Verify(pubKeyPEM, data, signature) ==
    /\ pubKeyPEM.form = "pubPEM"
    /\ signature.signer = pubKeyPEM.k
    /\ signature.hash = sha256_Sum256(data)

(***************************************************************************)
(* COSE signer                                                             *)
(***************************************************************************)
\* CoseSigner.GetSigStructBytes: canonical CBOR of
\* ["Signature1", protectedHeader, h'', payload]
GetSigStructBytes(payload) ==
    cborHead(4, 4) \o cborText(COSE_Sign1_Context) \o cborBytes(protectedHeader)
        \o cborBytes(<<>>) \o cborBytes(payload)

\* CoseSigner.GetCBORFromJSON: [err, bytes]
GetCBORFromJSON(data) ==
    LET marshal(reqDump) ==
            IF reqDump.err # NoErr
            THEN [err |-> "unable to parse JSON request body", bytes |-> <<>>]
            ELSE [err |-> NoErr, bytes |-> cborMarshalStringMap(reqDump.map)]
    IN  marshal(json_Unmarshal(data))

\* The COSE_Sign1 object that getCOSE hands to the encoder, tag included.  The
\* object is kept decoded: its four elements are what the service's clients
\* read back.
NoCOSE ==
    [Tag |-> 0, Protected |-> <<>>, Kid |-> <<>>, Payload |-> <<>>,
     Signature |-> NoSignature]

getCOSE(kid, payload, signatureBytes) ==
    [Tag |-> COSE_Sign1_Tag, Protected |-> protectedHeader, Kid |-> kid,
     Payload |-> payload, Signature |-> signatureBytes]

\* A faulty createSignedCOSE that signs the zero digest instead of the hash it
\* was given
createSignedCOSE_SignZero(hash, privateKeyPEM, kid, payload) ==
    LET encode(sig) ==
            IF sig.err # NoErr THEN [err |-> sig.err, cose |-> NoCOSE]
            ELSE [err |-> NoErr, cose |-> getCOSE(kid, payload, sig.signature)]
    IN  encode(SignHash(privateKeyPEM, ZeroSum))

\* CoseSigner.createSignedCOSE: [err, cose]
createSignedCOSE(hash, privateKeyPEM, kid, payload) ==
    LET encode(sig) ==
            IF sig.err # NoErr THEN [err |-> sig.err, cose |-> NoCOSE]
            ELSE [err |-> NoErr, cose |-> getCOSE(kid, payload, sig.signature)]
    IN  encode(SignHash(privateKeyPEM, hash))

\* sync.RWMutex as GetSKID and setSkidStore use it: [writer, readers]
canRLock_IgnoreWriter(mutex) == TRUE
canRLock(mutex) == ~mutex.writer
canLock(mutex) == ~mutex.writer /\ mutex.readers = 0

\* Protocol.GetSKID on a snapshot: [err, skid]
GetSKID(store, uid) ==
    IF uid \in DOMAIN store THEN [err |-> NoErr, skid |-> store[uid]]
    ELSE [err |-> "SKID unknown for identity (missing X.509 public key certificate)",
          skid |-> <<>>]

\* net/http.StatusText for the codes the service answers with
StatusText(code) ==
    CASE code = StatusBadRequest -> "Bad Request"
      [] code = StatusUnauthorized -> "Unauthorized"
      [] code = StatusNotFound -> "Not Found"
      [] code = StatusInternalServerError -> "Internal Server Error"
      [] OTHER -> "OK"

\* An HTTPResponse: the status, the text of an error answer, the COSE object of
\* a success.  signCalled and ecdsaCalled record what the handler ran.
errorResponse(code, message) ==
    [StatusCode |-> code,
     Message |-> IF message = "" THEN StatusText(code) ELSE message,
     Content |-> NoCOSE]

\* A faulty Sign that treats an unknown SKID like a failed signature
Sign_UnknownSkidAsFailure(msg, privateKeyPEM, store) ==
    LET answer(c) ==
            IF c.err # NoErr
            THEN [response |-> errorResponse(StatusInternalServerError, ""),
                  ecdsa |-> TRUE]
            ELSE [response |-> [StatusCode |-> StatusOK, Message |-> "",
                                Content |-> c.cose],
                  ecdsa |-> TRUE]
        withSKID(s) ==
            answer(createSignedCOSE(msg.Hash, IF s.err # NoErr THEN Empty
                                              ELSE privateKeyPEM,
                                    s.skid, msg.Payload))
    IN  withSKID(GetSKID(store, msg.ID))

\* CoseSigner.Sign: [response, ecdsa]; ecdsa tells whether SignHash was called
Sign(msg, privateKeyPEM, store) ==
    LET answer(c) ==
            IF c.err # NoErr
            THEN [response |-> errorResponse(StatusInternalServerError, ""),
                  ecdsa |-> TRUE]
            ELSE [response |-> [StatusCode |-> StatusOK, Message |-> "",
                                Content |-> c.cose],
                  ecdsa |-> TRUE]
        withSKID(s) ==
            IF s.err # NoErr
            THEN [response |-> errorResponse(StatusBadRequest, s.err), ecdsa |-> FALSE]
            ELSE answer(createSignedCOSE(msg.Hash, privateKeyPEM, s.skid, msg.Payload))
    IN  withSKID(GetSKID(store, msg.ID))

(***************************************************************************)
(* Request adapter.  A request r is                                        *)
(*   [uuidParam, authHeader, hashEndpoint, contentType, transferEncoding,   *)
(*    body, bodyErr]                                                        *)
(***************************************************************************)
ContentType(r)     == ToLower(r.contentType)
ContentEncoding(r) == ToLower(r.transferEncoding)
isHashRequest(r)   == r.hashEndpoint

\* getHashFromHashRequest: [err, hash]
getHashFromHashRequest(r, data) ==
    LET sized(dec) ==
            IF dec.err # NoErr
            THEN [err |-> "decoding encoded hash failed", hash |-> ZeroSum]
            ELSE IF Len(dec.bytes) # HashLen
            THEN [err |-> "invalid SHA256 hash size", hash |-> ZeroSum]
            ELSE [err |-> NoErr, hash |-> Sha256Sum(dec.bytes)]
        typed(ct) ==
            IF ct = TextType
            THEN IF ContentEncoding(r) = HexEncoding
                 THEN sized(hex_DecodeString(data))
                 ELSE sized(base64_DecodeString(data))
            ELSE IF ct = BinType
            THEN sized([err |-> NoErr, bytes |-> data])
            ELSE [err |-> "invalid content-type for hash", hash |-> ZeroSum]
    IN  typed(ContentType(r))

\* A faulty getPayloadAndHashFromDataRequest that hands on the request body of a
\* JSON request instead of its CBOR encoding
getPayloadAndHashFromDataRequest_KeepJSON(r, data) ==
    LET hashed(cborData) ==
            IF cborData.err # NoErr
            THEN [err |-> "unable to CBOR encode JSON object",
                  payload |-> <<>>, hash |-> ZeroSum]
            ELSE [err |-> NoErr, payload |-> data,
                  hash |-> sha256_Sum256(GetSigStructBytes(data))]
        typed(ct) ==
            IF ct = JSONType THEN hashed(GetCBORFromJSON(data))
            ELSE IF ct = CBORType THEN hashed([err |-> NoErr, bytes |-> data])
            ELSE [err |-> "invalid content-type for original data",
                  payload |-> <<>>, hash |-> ZeroSum]
    IN  typed(ContentType(r))

\* getPayloadAndHashFromDataRequest: [err, payload, hash]
getPayloadAndHashFromDataRequest(r, data) ==
    LET hashed(cborData) ==
            IF cborData.err # NoErr
            THEN [err |-> "unable to CBOR encode JSON object",
                  payload |-> <<>>, hash |-> ZeroSum]
            ELSE [err |-> NoErr, payload |-> cborData.bytes,
                  hash |-> sha256_Sum256(GetSigStructBytes(cborData.bytes))]
        typed(ct) ==
            IF ct = JSONType THEN hashed(GetCBORFromJSON(data))
            ELSE IF ct = CBORType THEN hashed([err |-> NoErr, bytes |-> data])
            ELSE [err |-> "invalid content-type for original data",
                  payload |-> <<>>, hash |-> ZeroSum]
    IN  typed(ContentType(r))

\* getPayloadAndHash (readBody included): [err, payload, hash]
getPayloadAndHash(r) ==
    IF r.bodyErr
    THEN [err |-> "unable to read request body", payload |-> <<>>, hash |-> ZeroSum]
    ELSE IF isHashRequest(r)
    THEN LET withPayload(h) == [err |-> h.err, payload |-> r.body, hash |-> h.hash]
         IN  withPayload(getHashFromHashRequest(r, r.body))
    ELSE getPayloadAndHashFromDataRequest(r, r.body)

\* A faulty checkAuth that lets a request without the header pass
checkAuth_AcceptMissing(r, correctAuthToken) ==
    r.authHeader = correctAuthToken \/ r.authHeader = ""

\* checkAuth: TRUE when the header carries the correct token
checkAuth(r, correctAuthToken) == r.authHeader = correctAuthToken

(***************************************************************************)
(* Identities and the Protocol coordinator                                 *)
(***************************************************************************)
NilUUID == "00000000-0000-0000-0000-000000000000"
UUIDs == {"u1", "u2", "u3"}

\* A faulty uuid.Parse that accepts every text
uuid_Parse_Lenient(param) == [err |-> NoErr, uid |-> param]

\* uuid.Parse on the URL parameter: [err, uid]
uuid_Parse(param) ==
    IF param \in UUIDs \cup {NilUUID} THEN [err |-> NoErr, uid |-> param]
    ELSE [err |-> "invalid UUID", uid |-> NilUUID]

\* the zero Identity, standing for "no identity" (a nil *Identity)
NoIdentity ==
    [Uid |-> NilUUID, PrivateKey |-> Empty, PublicKey |-> Empty, AuthToken |-> ""]

\* the maps of a new Protocol (NewProtocol)
EmptyCache == [u \in {} |-> NoIdentity]
EmptyUidCache == [k \in {} |-> NilUUID]
EmptySkidStore == [u \in {} |-> <<>>]

\* Protocol.checkIdentityAttributesNotNil
checkIdentityAttributesNotNil(i) ==
    IF i.Uid = NilUUID THEN "uuid has Nil value"
    ELSE IF BytesLen(i.PrivateKey) = 0 THEN "empty private key"
    ELSE IF BytesLen(i.PublicKey) = 0 THEN "empty public key"
    ELSE IF i.AuthToken = "" THEN "empty auth token"
    ELSE NoErr

\* pq error names that isConnectionAvailable / isConnectionNotAvailable test for
TooManyConnections == "too_many_connections"
ConfigurationLimitExceeded == "configuration_limit_exceeded"
ConnectionRefused == "connection refused"

isConnectionAvailable(err) ==
    err = TooManyConnections \/ err = ConfigurationLimitExceeded

isConnectionNotAvailable(err) ==
    err = TooManyConnections \/ err = ConfigurationLimitExceeded

\* A row of the identity table as an Identity in storage form
RowIdentity(row) ==
    [Uid |-> row.uid, PrivateKey |-> row.private_key,
     PublicKey |-> row.public_key, AuthToken |-> row.auth_token]

IdentityRow(id) ==
    [uid |-> id.Uid, private_key |-> id.PrivateKey,
     public_key |-> id.PublicKey, auth_token |-> id.AuthToken]

\* The store's GetIdentity(uid) on the committed rows: [err, id]
dm_GetIdentity(rows, uid) ==
    IF \E row \in rows : row.uid = uid
    THEN [err |-> NoErr, id |-> RowIdentity(CHOOSE row \in rows : row.uid = uid)]
    ELSE [err |-> ErrNotExist, id |-> NoIdentity]

\* What the database answers to the calls of one lookup: the first
\* fault.transient calls with too_many_connections, the next one with
\* fault.final ("ok": the query runs, "error": the connection is refused).
StoreAnswer(fault, i, normal, zero) ==
    IF i < fault.transient THEN [zero EXCEPT !.err = TooManyConnections]
    ELSE IF fault.final = "error" THEN [zero EXCEPT !.err = ConnectionRefused]
    ELSE normal

\* the retry loop of Protocol.fetchIdentityFromStorage, from attempt i on
RECURSIVE fetchIdentityAttempt(_, _, _, _)
fetchIdentityAttempt(rows, uid, fault, i) ==
    LET again(ans) ==
            IF ans.err # NoErr /\ isConnectionNotAvailable(ans.err)
               /\ i + 1 < maxDbConnAttempts
            THEN fetchIdentityAttempt(rows, uid, fault, i + 1)
            ELSE ans
    IN  again(StoreAnswer(fault, i, dm_GetIdentity(rows, uid),
                          [err |-> NoErr, id |-> NoIdentity]))

\* Protocol.fetchIdentityFromStorage: [err, id]
fetchIdentityFromStorage(rows, uid, fault) ==
    LET checked(id, err) ==
            IF err # NoErr THEN [err |-> err, id |-> NoIdentity]
            ELSE [err |-> NoErr, id |-> id]
        decoded(got, priv, pub) ==
            IF priv.err # NoErr THEN [err |-> priv.err, id |-> NoIdentity]
            ELSE IF pub.err # NoErr THEN [err |-> pub.err, id |-> NoIdentity]
            ELSE checked([got.id EXCEPT !.PrivateKey = priv.bytes,
                                        !.PublicKey = pub.bytes],
                         checkIdentityAttributesNotNil(
                             [got.id EXCEPT !.PrivateKey = priv.bytes,
                                            !.PublicKey = pub.bytes]))
        fetched(got) ==
            IF got.err # NoErr THEN [err |-> got.err, id |-> NoIdentity]
            ELSE decoded(got, Decrypt(got.id.PrivateKey),
                         PublicKeyBytesToPEM(got.id.PublicKey))
    IN  fetched(fetchIdentityAttempt(rows, uid, fault, 0))

\* Protocol.GetIdentity: [err, id, cache]
GetIdentity(cache, rows, uid, fault) ==
    LET stored(fetched) ==
            IF fetched.err # NoErr
            THEN [err |-> fetched.err, id |-> NoIdentity, cache |-> cache]
            ELSE [err |-> NoErr, id |-> fetched.id,
                  cache |-> [u \in DOMAIN cache \cup {uid} |->
                                IF u = uid THEN fetched.id ELSE cache[u]]]
    IN  IF uid \in DOMAIN cache /\ cache[uid] # NoIdentity
        THEN [err |-> NoErr, id |-> cache[uid], cache |-> cache]
        ELSE stored(fetchIdentityFromStorage(rows, uid, fault))

\* a StoreNewIdentity that hands the private key to the store as it came
protocolStoreForm_Cleartext(id) ==
    LET encoded(raw) ==
            IF raw.err # NoErr THEN [err |-> raw.err, id |-> NoIdentity]
            ELSE [err |-> NoErr, id |-> [id EXCEPT !.PublicKey = raw.bytes]]
        checked(err) ==
            IF err # NoErr THEN [err |-> err, id |-> NoIdentity]
            ELSE encoded(PublicKeyPEMToBytes(id.PublicKey))
    IN  checked(checkIdentityAttributesNotNil(id))

\* Protocol.StoreNewIdentity up to the call of the store: [err, id] with id in
\* storage form
protocolStoreForm(id) ==
    LET encoded(enc, raw) ==
            IF enc.err # NoErr THEN [err |-> enc.err, id |-> NoIdentity]
            ELSE IF raw.err # NoErr THEN [err |-> raw.err, id |-> NoIdentity]
            ELSE [err |-> NoErr,
                  id |-> [id EXCEPT !.PrivateKey = enc.bytes,
                                    !.PublicKey = raw.bytes]]
        checked(err) ==
            IF err # NoErr THEN [err |-> err, id |-> NoIdentity]
            ELSE encoded(Encrypt(id.PrivateKey), PublicKeyPEMToBytes(id.PublicKey))
    IN  checked(checkIdentityAttributesNotNil(id))

(***************************************************************************)
(* DatabaseManager: the identity table (uid PRIMARY KEY, private_key,      *)
(* public_key, auth_token) behind database/sql                             *)
(***************************************************************************)
ErrNoRows == "sql: no rows in result set"
ErrDuplicateKey == "pq: duplicate key value violates unique constraint"
ErrInFailedTransaction == "pq: Could not complete operation in a failed transaction"
ErrTxDone == "sql: transaction has already been committed or rolled back"
NoRow == IdentityRow(NoIdentity)

\* QueryRow("... WHERE uid = $1").Scan: [err, row]
queryByUid(rows, uid) ==
    IF \E x \in rows : x.uid = uid
    THEN [err |-> NoErr, row |-> CHOOSE x \in rows : x.uid = uid]
    ELSE [err |-> ErrNoRows, row |-> NoRow]

\* QueryRow("... WHERE public_key = $1").Scan, row being the matching row the
\* database returns first: [err, row]
queryByPublicKey(rows, pubKey, row) ==
    IF \E x \in rows : x.public_key = pubKey
    THEN [err |-> NoErr, row |-> row]
    ELSE [err |-> ErrNoRows, row |-> NoRow]

\* "if dm.isConnectionAvailable(err) { return dm.<same call> }": the answer
\* that ends the retries
RECURSIVE dmRetry(_, _, _, _)
dmRetry(fault, i, normal, zero) ==
    LET again(ans) ==
            IF ans.err # NoErr /\ isConnectionAvailable(ans.err)
            THEN dmRetry(fault, i + 1, normal, zero)
            ELSE ans
    IN  again(StoreAnswer(fault, i, normal, zero))

NoAnswer == [err |-> NoErr, row |-> NoRow]

\* the tail of Exists and ExistsUuidForPublicKey: [found, err]
existsFrom(ans) ==
    IF ans.err # NoErr
    THEN IF ans.err = ErrNoRows THEN [found |-> FALSE, err |-> NoErr]
         ELSE [found |-> FALSE, err |-> ans.err]
    ELSE [found |-> TRUE, err |-> NoErr]

\* the tail of ExistsPrivateKey and ExistsPublicKey, scanned being the
\* destination of Scan (left empty when Scan fails): [found, err]
existsColumnFrom(ans, scanned) ==
    IF ans.err # NoErr
    THEN IF ans.err = ErrNoRows \/ BytesLen(scanned) = 0
         THEN [found |-> FALSE, err |-> NoErr]
         ELSE [found |-> FALSE, err |-> ans.err]
    ELSE [found |-> TRUE, err |-> NoErr]

dm_Exists(rows, uid, fault) ==
    existsFrom(dmRetry(fault, 0, queryByUid(rows, uid), NoAnswer))

dm_ExistsUuidForPublicKey(rows, pubKey, row, fault) ==
    existsFrom(dmRetry(fault, 0, queryByPublicKey(rows, pubKey, row), NoAnswer))

dm_ExistsPrivateKey(rows, uid, fault) ==
    LET scan(ans) == existsColumnFrom(ans, ans.row.private_key)
    IN  scan(dmRetry(fault, 0, queryByUid(rows, uid), NoAnswer))

dm_ExistsPublicKey(rows, uid, fault) ==
    LET scan(ans) == existsColumnFrom(ans, ans.row.public_key)
    IN  scan(dmRetry(fault, 0, queryByUid(rows, uid), NoAnswer))

\* [err, uid]
dm_GetUuidForPublicKey(rows, pubKey, row, fault) ==
    LET scan(ans) ==
            IF ans.err # NoErr THEN [err |-> ans.err, uid |-> NilUUID]
            ELSE [err |-> NoErr, uid |-> ans.row.uid]
    IN  scan(dmRetry(fault, 0, queryByPublicKey(rows, pubKey, row), NoAnswer))

\* [err, bytes]
dm_GetPrivateKey(rows, uid, fault) ==
    LET scan(ans) ==
            IF ans.err # NoErr THEN [err |-> ans.err, bytes |-> Empty]
            ELSE [err |-> NoErr, bytes |-> ans.row.private_key]
    IN  scan(dmRetry(fault, 0, queryByUid(rows, uid), NoAnswer))

dm_GetPublicKey(rows, uid, fault) ==
    LET scan(ans) ==
            IF ans.err # NoErr THEN [err |-> ans.err, bytes |-> Empty]
            ELSE [err |-> NoErr, bytes |-> ans.row.public_key]
    IN  scan(dmRetry(fault, 0, queryByUid(rows, uid), NoAnswer))

\* [err, text]
dm_GetAuthToken(rows, uid, fault) ==
    LET scan(ans) ==
            IF ans.err # NoErr THEN [err |-> ans.err, text |-> ""]
            ELSE [err |-> NoErr, text |-> ans.row.auth_token]
    IN  scan(dmRetry(fault, 0, queryByUid(rows, uid), NoAnswer))

\* an INSERT under a table-wide uniqueness: it fails as soon as the table or
\* the transaction holds any row
execInsert_OneRowTable(committed, tx, row) ==
    IF tx.state = "cancelled"
    THEN [err |-> ErrTxDone, tx |-> tx]
    ELSE IF tx.state = "aborted"
    THEN [err |-> ErrInFailedTransaction, tx |-> tx]
    ELSE IF committed \cup tx.rows # {}
    THEN [err |-> ErrDuplicateKey, tx |-> [tx EXCEPT !.state = "aborted"]]
    ELSE [err |-> NoErr, tx |-> [tx EXCEPT !.rows = @ \cup {row}]]

\* A transaction handle is [state, rows]: "none" (no transaction), "open",
\* "aborted" (a statement failed) or "cancelled" (its context was cancelled
\* and database/sql rolled it back), and the rows it has inserted.
\* tx.Exec("INSERT ..."): the primary key is checked against the committed
\* rows and the transaction's own: [err, tx]
execInsert(committed, tx, row) ==
    IF tx.state = "cancelled"
    THEN [err |-> ErrTxDone, tx |-> tx]
    ELSE IF tx.state = "aborted"
    THEN [err |-> ErrInFailedTransaction, tx |-> tx]
    ELSE IF \E x \in committed \cup tx.rows : x.uid = row.uid
    THEN [err |-> ErrDuplicateKey, tx |-> [tx EXCEPT !.state = "aborted"]]
    ELSE [err |-> NoErr, tx |-> [tx EXCEPT !.rows = @ \cup {row}]]

\* DatabaseManager.StoreNewIdentity: [err, tx]
dm_StoreNewIdentity(committed, tx, identity, fault) ==
    LET failed(ans) ==
            IF ans.err = ConnectionRefused /\ tx.state # "cancelled"
            THEN [ans EXCEPT !.tx = [tx EXCEPT !.state = "aborted"]]
            ELSE ans
    IN  failed(dmRetry(fault, 0, execInsert(committed, tx, IdentityRow(identity)),
                       [err |-> NoErr, tx |-> tx]))

\* "UPDATE ... SET <column> = $1 WHERE uid = $2" on one row
setColumn(row, update) ==
    IF row.uid = update.uid
    THEN [row EXCEPT ![update.column] = update.value]
    ELSE row

\* the committed rows once the transaction's UPDATE statements, from the
\* i-th on, have taken effect in the order they were executed
RECURSIVE applyUpdates(_, _, _)
applyUpdates(rows, updates, i) ==
    IF i > Len(updates)
    THEN rows
    ELSE applyUpdates({setColumn(x, updates[i]) : x \in rows}, updates, i + 1)

\* tx.Exec("UPDATE ..."): the rows the transaction inserted itself change at
\* once, the committed ones when it commits; a statement that matches no row
\* is no error: [err, tx]
execUpdate(tx, update) ==
    IF tx.state = "cancelled"
    THEN [err |-> ErrTxDone, tx |-> tx]
    ELSE IF tx.state = "aborted"
    THEN [err |-> ErrInFailedTransaction, tx |-> tx]
    ELSE [err |-> NoErr,
          tx |-> [tx EXCEPT !.rows = {setColumn(x, update) : x \in @},
                            !.updates = Append(@, update)]]

\* the retry tail shared by SetAuthToken and SetPublicKey: [err, tx]
dm_update(tx, update, fault) ==
    LET failed(ans) ==
            IF ans.err = ConnectionRefused /\ tx.state # "cancelled"
            THEN [ans EXCEPT !.tx = [tx EXCEPT !.state = "aborted"]]
            ELSE ans
    IN  failed(dmRetry(fault, 0, execUpdate(tx, update), [err |-> NoErr, tx |-> tx]))

\* DatabaseManager.SetAuthToken: [err, tx]
dm_SetAuthToken(tx, uid, authToken, fault) ==
    dm_update(tx, [uid |-> uid, column |-> "auth_token", value |-> authToken], fault)

\* DatabaseManager.SetPublicKey: [err, tx]
dm_SetPublicKey(tx, uid, pub, fault) ==
    dm_update(tx, [uid |-> uid, column |-> "public_key", value |-> pub], fault)

\* a CloseTransaction that commits whatever the flag says
dm_CloseTransaction_IgnoreFlag(committed, tx, commit) ==
    IF tx.state = "cancelled"
    THEN [err |-> ErrTxDone, committed |-> committed]
    ELSE IF tx.state = "aborted"
    THEN [err |-> ErrInFailedTransaction, committed |-> committed]
    ELSE [err |-> NoErr, committed |-> applyUpdates(committed, tx.updates, 1) \cup tx.rows]

\* DatabaseManager.CloseTransaction: [err, committed]
dm_CloseTransaction(committed, tx, commit) ==
    IF tx.state = "cancelled"
    THEN [err |-> ErrTxDone, committed |-> committed]
    ELSE IF commit
    THEN IF tx.state = "aborted"
         THEN [err |-> ErrInFailedTransaction, committed |-> committed]
         ELSE [err |-> NoErr, committed |-> applyUpdates(committed, tx.updates, 1) \cup tx.rows]
    ELSE [err |-> NoErr, committed |-> committed]

(***************************************************************************)
(* The SKID reconciler: trust list, certificate matching, loadSKIDs        *)
(***************************************************************************)
\* setInterval: the reload interval in minutes and the failure threshold
setInterval(reloadEveryMinute) ==
    IF reloadEveryMinute
    THEN [certLoadInterval |-> 1, maxCertLoadFailCount |-> 60]
    ELSE [certLoadInterval |-> 60, maxCertLoadFailCount |-> 3]

\* httphelper.HttpFailed
HttpFailed(StatusCode) == StatusCode < 200 \/ StatusCode >= 300

\* ExtendedClient.RequestCertificateListPublicKey on the answer of the key
\* endpoint, [err, StatusCode, Content]: [err, pem]
RequestCertificateListPublicKey(keyAnswer) ==
    IF keyAnswer.err # NoErr
    THEN [err |-> "unable to retrieve public key for certificate list verification",
          pem |-> Empty]
    ELSE IF HttpFailed(keyAnswer.StatusCode)
    THEN [err |-> "GET request failed", pem |-> Empty]
    ELSE [err |-> NoErr, pem |-> keyAnswer.Content]

\* A faulty RequestCertificateList that never looks at the result of verify
RequestCertificateList_NoVerify(reply) ==
    LET failed(message) == [err |-> message, certs |-> <<>>]
        verified(pubKeyPEM) ==
            IF ~reply.list.sigLine.wellFormed THEN failed("illegal base64 data")
            ELSE IF ~reply.list.certList.wellFormed
            THEN failed("unable to decode public key certificate list")
            ELSE [err |-> NoErr, certs |-> reply.list.certList.certificates]
        withKey(key) ==
            IF key.err # NoErr THEN failed(key.err) ELSE verified(key.pem)
    IN  IF reply.list.err # NoErr
        THEN failed("unable to retrieve public key certificate list")
        ELSE IF HttpFailed(reply.list.StatusCode)
        THEN failed("GET request failed")
        ELSE IF ~reply.list.newline
        THEN failed("unexpected response content: missing newline")
        ELSE withKey(RequestCertificateListPublicKey(reply.key))

\* ExtendedClient.RequestCertificateList on the answers of the two endpoints.
\* The list answer is [err, StatusCode, newline, sigLine, certList]: sigLine is
\* the first line, [wellFormed, signature] (base64 text or not, and the
\* signature it encodes); certList is the rest, [wellFormed, certificates]
\* (a JSON trust list or not): [err, certs]
RequestCertificateList(reply) ==
    LET failed(message) == [err |-> message, certs |-> <<>>]
        verified(pubKeyPEM) ==
            IF ~reply.list.sigLine.wellFormed THEN failed("illegal base64 data")
            ELSE IF pubKeyPEM.form # "pubPEM"
            THEN failed("unable to verify signature for public key certificate list")
            ELSE IF ~Verify(pubKeyPEM, reply.list.certList, reply.list.sigLine.signature)
            THEN failed("invalid signature for public key certificate list")
            ELSE IF ~reply.list.certList.wellFormed
            THEN failed("unable to decode public key certificate list")
            ELSE [err |-> NoErr, certs |-> reply.list.certList.certificates]
        withKey(key) ==
            IF key.err # NoErr THEN failed(key.err) ELSE verified(key.pem)
    IN  IF reply.list.err # NoErr
        THEN failed("unable to retrieve public key certificate list")
        ELSE IF HttpFailed(reply.list.StatusCode)
        THEN failed("GET request failed")
        ELSE IF ~reply.list.newline
        THEN failed("unexpected response content: missing newline")
        ELSE withKey(RequestCertificateListPublicKey(reply.key))

\* x509.ParseCertificate on Certificate.RawData, [form, k]: [err, PublicKey]
x509_ParseCertificate(RawData) ==
    IF RawData.form = "x509" THEN [err |-> NoErr, PublicKey |-> RawData.k]
    ELSE [err |-> "x509: malformed certificate", PublicKey |-> ""]

\* ubirch.Crypto.EncodePublicKey: only ECDSA keys are encoded: [err, bytes]
EncodePublicKey(PublicKey) ==
    IF PublicKey = "rsa" THEN [err |-> "unsupported key type", bytes |-> Empty]
    ELSE [err |-> NoErr, bytes |-> PubPEM(PublicKey)]

\* base64.StdEncoding.EncodeToString of raw public key bytes, the key of uidCache
uidCacheKey(publicKeyBytes) == "b64:" \o publicKeyBytes.k

\* the row a query by public key returns when exactly one can match
OnlyRowFor(rows, pubKey) ==
    IF \E x \in rows : x.public_key = pubKey
    THEN CHOOSE x \in rows : x.public_key = pubKey
    ELSE NoRow

\* Protocol.fetchUuidForPublicKeyFromStorage, from attempt i on: [err, uid]
RECURSIVE fetchUuidAttempt(_, _, _, _)
fetchUuidAttempt(rows, publicKeyBytes, fault, i) ==
    LET again(ans) ==
            IF ans.err # NoErr /\ isConnectionNotAvailable(ans.err)
               /\ i + 1 < maxDbConnAttempts
            THEN fetchUuidAttempt(rows, publicKeyBytes, fault, i + 1)
            ELSE ans
    IN  again(dm_GetUuidForPublicKey(rows, publicKeyBytes,
                                     OnlyRowFor(rows, publicKeyBytes), fault))

fetchUuidForPublicKeyFromStorage(rows, publicKeyBytes, fault) ==
    fetchUuidAttempt(rows, publicKeyBytes, fault, 0)

\* Protocol.GetUuidForPublicKey: [err, uid, cache]
GetUuidForPublicKey(cache, rows, publicKeyPEM, fault) ==
    LET stored(key, got) ==
            IF got.err # NoErr THEN [err |-> got.err, uid |-> NilUUID, cache |-> cache]
            ELSE [err |-> NoErr, uid |-> got.uid,
                  cache |-> [k \in DOMAIN cache \cup {key} |->
                                IF k = key THEN got.uid ELSE cache[k]]]
        looked(raw) ==
            IF raw.err # NoErr THEN [err |-> raw.err, uid |-> NilUUID, cache |-> cache]
            ELSE IF uidCacheKey(raw.bytes) \in DOMAIN cache
            THEN [err |-> NoErr, uid |-> cache[uidCacheKey(raw.bytes)], cache |-> cache]
            ELSE stored(uidCacheKey(raw.bytes),
                        fetchUuidForPublicKeyFromStorage(rows, raw.bytes, fault))
    IN  looked(PublicKeyPEMToBytes(publicKeyPEM))

\* the loop of loadSKIDs over the certificate list: [temp, cache]
RECURSIVE matchCertificates(_, _, _, _, _)
matchCertificates(certs, tempSkidStore, cache, rows, fault) ==
    LET next(temp, c) == matchCertificates(Tail(certs), temp, c, rows, fault)
        matched(got) ==
            IF got.err # NoErr \/ Len(Head(certs).Kid) # SkidLen
            THEN next(tempSkidStore, got.cache)
            ELSE next([u \in DOMAIN tempSkidStore \cup {got.uid} |->
                          IF u = got.uid THEN Head(certs).Kid ELSE tempSkidStore[u]],
                      got.cache)
        encoded(pubKeyPEM) ==
            IF pubKeyPEM.err # NoErr THEN next(tempSkidStore, cache)
            ELSE matched(GetUuidForPublicKey(cache, rows, pubKeyPEM.bytes, fault))
        parsed(certificate) ==
            IF certificate.err # NoErr THEN next(tempSkidStore, cache)
            ELSE encoded(EncodePublicKey(certificate.PublicKey))
    IN  IF certs = <<>> THEN [temp |-> tempSkidStore, cache |-> cache]
        ELSE parsed(x509_ParseCertificate(Head(certs).RawData))

\* A faulty loadSKIDs that publishes the empty map after every failed request
loadSKIDs_ClearOnFailure(store, counter, max, cache, rows, reply, fault) ==
    LET publish(m, newCounter, failed) ==
            [skidStore |-> m.temp, certLoadFailCounter |-> newCounter,
             uidCache |-> m.cache, failed |-> failed, published |-> TRUE]
        requested(got) ==
            IF got.err # NoErr
            THEN publish(matchCertificates(got.certs, EmptySkidStore, cache, rows, fault),
                         counter + 1, TRUE)
            ELSE publish(matchCertificates(got.certs, EmptySkidStore, cache, rows, fault),
                         0, FALSE)
    IN  requested(RequestCertificateList(reply))

\* A faulty loadSKIDs that never gives up the published map
loadSKIDs_KeepOnFailure(store, counter, max, cache, rows, reply, fault) ==
    LET publish(m, newCounter, failed) ==
            [skidStore |-> m.temp, certLoadFailCounter |-> newCounter,
             uidCache |-> m.cache, failed |-> failed, published |-> TRUE]
        requested(got) ==
            IF got.err # NoErr
            THEN [skidStore |-> store, certLoadFailCounter |-> counter + 1,
                  uidCache |-> cache, failed |-> TRUE, published |-> FALSE]
            ELSE publish(matchCertificates(got.certs, EmptySkidStore, cache, rows, fault),
                         0, FALSE)
    IN  requested(RequestCertificateList(reply))

\* A faulty loadSKIDs that keeps counting after a successful request
loadSKIDs_NoReset(store, counter, max, cache, rows, reply, fault) ==
    LET publish(m, newCounter, failed) ==
            [skidStore |-> m.temp, certLoadFailCounter |-> newCounter,
             uidCache |-> m.cache, failed |-> failed, published |-> TRUE]
        requested(got) ==
            IF got.err # NoErr
            THEN IF counter + 1 # max
                 THEN [skidStore |-> store, certLoadFailCounter |-> counter + 1,
                       uidCache |-> cache, failed |-> TRUE, published |-> FALSE]
                 ELSE publish(matchCertificates(got.certs, EmptySkidStore, cache, rows, fault),
                              counter + 1, TRUE)
            ELSE publish(matchCertificates(got.certs, EmptySkidStore, cache, rows, fault),
                         counter, FALSE)
    IN  requested(RequestCertificateList(reply))

\* Protocol.loadSKIDs, one cycle, with setSkidStore at its end:
\* [skidStore, certLoadFailCounter, uidCache, failed, published]
loadSKIDs(store, counter, max, cache, rows, reply, fault) ==
    LET publish(m, newCounter, failed) ==
            [skidStore |-> m.temp, certLoadFailCounter |-> newCounter,
             uidCache |-> m.cache, failed |-> failed, published |-> TRUE]
        requested(got) ==
            IF got.err # NoErr
            THEN IF counter + 1 # max
                 THEN [skidStore |-> store, certLoadFailCounter |-> counter + 1,
                       uidCache |-> cache, failed |-> TRUE, published |-> FALSE]
                 ELSE publish(matchCertificates(got.certs, EmptySkidStore, cache, rows, fault),
                              counter + 1, TRUE)
            ELSE publish(matchCertificates(got.certs, EmptySkidStore, cache, rows, fault),
                         0, FALSE)
    IN  requested(RequestCertificateList(reply))

(***************************************************************************)
(* handleRequest, with directUUID's parse of the URL parameter             *)
(***************************************************************************)
NoMsg == [ID |-> NilUUID, Hash |-> ZeroSum, Payload |-> <<>>]

\* The exchange a handler run leaves behind: the request, the answer and what
\* the handler did on the way (identity resolved, auth checked, body parsed,
\* Sign called, ECDSA run).
Exchange(r, response, id, idErr, authChecked, bodyParsed, msg, signCalled, ecdsa) ==
    [req |-> r, StatusCode |-> response.StatusCode, Message |-> response.Message,
     Content |-> response.Content, identity |-> id, idErr |-> idErr,
     authChecked |-> authChecked, bodyParsed |-> bodyParsed, msg |-> msg,
     signCalled |-> signCalled, ecdsaCalled |-> ecdsa]

\* COSEService.handleRequest: [exchange, cache]
handleRequest(r, uid, cache, rows, store, fault) ==
    LET respond(got, msg, signed) ==
            [exchange |-> Exchange(r, signed.response, got.id, NoErr, TRUE, TRUE,
                                   msg, TRUE, signed.ecdsa),
             cache |-> got.cache]
        sign(got, msg) == respond(got, msg, Sign(msg, got.id.PrivateKey, store))
        withBody(got, parsed) ==
            IF parsed.err # NoErr
            THEN [exchange |-> Exchange(r, errorResponse(StatusBadRequest, parsed.err),
                                        got.id, NoErr, TRUE, TRUE, NoMsg, FALSE, FALSE),
                  cache |-> got.cache]
            ELSE sign(got, [ID |-> uid, Hash |-> parsed.hash,
                            Payload |-> parsed.payload])
        withIdentity(got) ==
            IF got.err = ErrNotExist
            THEN [exchange |-> Exchange(r, errorResponse(StatusNotFound, "unknown UUID"),
                                        NoIdentity, got.err, FALSE, FALSE, NoMsg,
                                        FALSE, FALSE),
                  cache |-> got.cache]
            ELSE IF got.err # NoErr
            THEN [exchange |-> Exchange(r, errorResponse(StatusInternalServerError, ""),
                                        NoIdentity, got.err, FALSE, FALSE, NoMsg,
                                        FALSE, FALSE),
                  cache |-> got.cache]
            ELSE IF ~checkAuth(r, got.id.AuthToken)
            THEN [exchange |-> Exchange(r, errorResponse(StatusUnauthorized,
                                                         "invalid auth token"),
                                        got.id, NoErr, TRUE, FALSE, NoMsg, FALSE, FALSE),
                  cache |-> got.cache]
            ELSE withBody(got, getPayloadAndHash(r))
    IN  withIdentity(GetIdentity(cache, rows, uid, fault))

\* COSEService.directUUID: [exchange, cache]
directUUID(r, cache, rows, store, fault) ==
    LET route(p) ==
            IF p.err # NoErr
            THEN [exchange |-> Exchange(r, errorResponse(StatusNotFound, p.err),
                                        NoIdentity, p.err, FALSE, FALSE, NoMsg,
                                        FALSE, FALSE),
                  cache |-> cache]
            ELSE handleRequest(r, p.uid, cache, rows, store, fault)
    IN  route(uuid_Parse(r.uuidParam))

(***************************************************************************)
(* Inputs: identities, key identifiers, request envelopes                  *)
(***************************************************************************)
\* how many too_many_connections answers in a row the database may give
MaxTransient == 5

StoreFaults == [transient : 0..MaxTransient, final : {"ok", "error"}]
NoFault == [transient |-> 0, final |-> "ok"]

\* Two registered identities: the first with a usable key pair, the second
\* with private key bytes that are no key (SignHash fails on them).
Identity1 ==
    [Uid |-> "u1", PrivateKey |-> PrivPEM("k1"), PublicKey |-> PubPEM("k1"),
     AuthToken |-> "tokA"]
Identity2 ==
    [Uid |-> "u2", PrivateKey |-> Junk("j1"), PublicKey |-> PubPEM("k2"),
     AuthToken |-> "tokB"]
Registered == {Identity1, Identity2}

\* the rows that Protocol.StoreNewIdentity hands to the store for them
StoredRow(id) == IdentityRow(protocolStoreForm(id).id)

Kid1 == <<1, 2, 3, 4, 5, 6, 7, 8>>
Kid2 == <<9, 10, 11, 12, 13, 14, 15, 16>>
KidOf(uid) == IF uid = "u1" THEN Kid1 ELSE Kid2

\* client side encoders, used to build request bodies
hexDigit(v) == IF v < 10 THEN v + 48 ELSE v + 87
clientHex(b) ==
    [i \in 1..(2 * Len(b)) |->
        IF i % 2 = 1 THEN hexDigit(b[(i + 1) \div 2] \div 16)
        ELSE hexDigit(b[i \div 2] % 16)]

b64Char(v) ==
    IF v < 26 THEN v + 65
    ELSE IF v < 52 THEN v + 71
    ELSE IF v < 62 THEN v - 4
    ELSE IF v = 62 THEN 43 ELSE 47

clientBase64(b) ==
    LET n == Len(b)
        at(i) == IF i <= n THEN b[i] ELSE 0
        ch(q, pos) ==
            LET b0 == at(3 * q + 1)
                b1 == at(3 * q + 2)
                b2 == at(3 * q + 3)
            IN  IF pos = 0 THEN b64Char(b0 \div 4)
                ELSE IF pos = 1 THEN b64Char((b0 % 4) * 16 + (b1 \div 16))
                ELSE IF pos = 2
                THEN IF 3 * q + 2 > n THEN 61
                     ELSE b64Char((b1 % 16) * 4 + (b2 \div 64))
                ELSE IF 3 * q + 3 > n THEN 61 ELSE b64Char(b2 % 64)
    IN  [i \in 1..(4 * ((n + 2) \div 3)) |-> ch((i - 1) \div 4, (i - 1) % 4)]

Digest1 == [i \in 1..HashLen |-> (i * 37 + 11) % 256]
\* "abcd": hex and base64 of the wrong length
ShortText == <<97, 98, 99, 100>>
\* "zz!": neither hex nor base64
NotEncoded == <<122, 122, 33>>
\* CBOR {"a": "b"}
CborDoc == <<161, 97, 97, 97, 98>>
\* {"bb":"c","a":"d"}
JsonDoc == <<123, 34, 98, 98, 34, 58, 34, 99, 34, 44, 34, 97, 34, 58, 34, 100, 34, 125>>
\* {"a":1}
JsonNumber == <<123, 34, 97, 34, 58, 49, 125>>

Bodies ==
    {Digest1, clientHex(Digest1), clientBase64(Digest1), ShortText, NotEncoded,
     CborDoc, JsonDoc, JsonNumber}

ContentTypes == {BinType, TextType, "Text/Plain", JSONType, CBORType, ""}
TransferEncodings == {HexEncoding, ""}
UUIDParams == UUIDs \cup {"not-a-uuid"}
AuthHeaders == {"tokA", "tokB", ""}

\* every envelope; a body that cannot be read is one more body
Requests ==
    [uuidParam : UUIDParams, authHeader : AuthHeaders, hashEndpoint : BOOLEAN,
     contentType : ContentTypes, transferEncoding : TransferEncodings,
     body : Bodies, bodyErr : {FALSE}]
    \cup
    [uuidParam : UUIDParams, authHeader : AuthHeaders, hashEndpoint : BOOLEAN,
     contentType : ContentTypes, transferEncoding : TransferEncodings,
     body : {<<>>}, bodyErr : {TRUE}]

NoRequest ==
    [uuidParam |-> "", authHeader |-> "", hashEndpoint |-> FALSE,
     contentType |-> "", transferEncoding |-> "", body |-> <<>>, bodyErr |-> FALSE]

NoResp ==
    Exchange(NoRequest, [StatusCode |-> 0, Message |-> "", Content |-> NoCOSE],
             NoIdentity, NoErr, FALSE, FALSE, NoMsg, FALSE, FALSE)


(***************************************************************************)
(* State after construction (NewSqlDatabaseInfo, NewProtocol)              *)
(***************************************************************************)
MaxTx == 2
TxIds == 1..MaxTx
NoTx == [state |-> "none", rows |-> {}, updates |-> <<>>]

\* the last call of a DatabaseManager method: its arguments, whether the
\* database was there to answer, and what the method returned
NoDbOut ==
    [op |-> "none", tx |-> 0, uid |-> "", key |-> Empty, store |-> "ok",
     found |-> FALSE, bytes |-> Empty, text |-> "", err |-> NoErr]

NoCycle ==
    [ran |-> FALSE, failed |-> FALSE, published |-> FALSE, before |-> EmptySkidStore,
     failsBefore |-> 0]
RecIdle == [pc |-> "idle", temp |-> EmptySkidStore, last |-> EmptySkidStore]
MutexFree == [writer |-> FALSE, readers |-> 0]

\* the number of concurrent callers of Protocol.GetIdentity
MaxGetters == 2
GetterIds == 1..MaxGetters

\* the parts of the state a specification does not move
StoreAtRest == txs = [t \in TxIds |-> NoTx] /\ dbOut = NoDbOut
ReconcilerAtRest ==
    /\ uidCache = EmptyUidCache
    /\ certLoadFailCounter = 0
    /\ cycle = NoCycle
\* no GetIdentity call under way, no first results; main waiting in g.Wait
\* with the server serving, the store open and the reconciler between ticks
NoGetter == [pc |-> "idle", uid |-> NilUUID, later |-> FALSE, err |-> NoErr,
             id |-> NoIdentity]
NoGetters == [calls |-> [i \in GetterIds |-> NoGetter], first |-> EmptyCache]
\* csrJobs[uid]: where the caller of registerPublicKey is ("idle", "go" after
\* the go statement, "returned"), what it returns, whether the backend has
\* the key registration, and the goroutine of submitCSROrLogError ("none",
\* "running", "submitted", "failed")
NoCsrJob ==
    [pc |-> "idle", csr |-> Empty, err |-> NoErr, registered |-> FALSE,
     job |-> "none"]
NoCsrJobs == [u \in UUIDs |-> NoCsrJob]
\* the version table without a row, Migrate never run
NoMigration == [version |-> {}, runs |-> 0]
ProcStart ==
    [ctx |-> "live", server |-> "serving", main |-> "waiting", store |-> "open",
     reconciler |-> "waiting", tickCtx |-> "live"]
ProcessAtRest ==
    /\ getters = NoGetters /\ proc = ProcStart /\ csrJobs = NoCsrJobs
    /\ migration = NoMigration
StepwiseAtRest ==
    /\ rec = RecIdle
    /\ readers = <<>>
    /\ skidStoreMutex = MutexFree
    /\ published = {}

(***************************************************************************)
(* SpecSign: the signing endpoint in front of a store and a SKID snapshot  *)
(* that earlier registrations and reconciliation cycles left behind.       *)
(***************************************************************************)
\* the snapshots loadSKIDs can have published for the rows of the store
SnapshotsFor(rows) ==
    UNION {[us -> {Kid1, Kid2}] : us \in SUBSET {row.uid : row \in rows}}

InitSign ==
    /\ db = {StoredRow(id) : id \in Registered}
    /\ skidStore \in {s \in SnapshotsFor(db) : \A u \in DOMAIN s : s[u] = KidOf(u)}
    /\ maxCertLoadFailCount = 3
    /\ identityCache = EmptyCache
    /\ resp = NoResp
    /\ StoreAtRest /\ ReconcilerAtRest /\ ProcessAtRest /\ StepwiseAtRest

\* one request served by directUUID/handleRequest, start to response
HandleRequest(R) ==
    /\ resp = NoResp
    /\ \E r \in R, fault \in StoreFaults :
          LET served(out) ==
                  /\ resp' = out.exchange
                  /\ identityCache' = out.cache
          IN  served(directUUID(r, identityCache, db, skidStore, fault))
    /\ UNCHANGED <<db, txs, dbOut, uidCache, skidStore, certLoadFailCounter,
                   maxCertLoadFailCount, cycle, rec, readers, skidStoreMutex,
                   published, getters, proc, csrJobs, migration>>

\* the client takes the response; the next request can be served
ClientReceive ==
    /\ resp # NoResp
    /\ resp' = NoResp
    /\ UNCHANGED <<db, txs, dbOut, identityCache, uidCache, skidStore,
                   certLoadFailCounter, maxCertLoadFailCount, cycle, rec,
                   readers, skidStoreMutex, published, getters, proc, csrJobs,
                   migration>>

NextSign == HandleRequest(Requests) \/ ClientReceive

SpecSign == InitSign /\ [][NextSign]_vars


(***************************************************************************)
(* Properties of the signing endpoint (SpecSign)                           *)
(***************************************************************************)
\* an exchange has been served and waits for the client; its identity was
\* resolved; something was signed for it
Served == resp # NoResp
Resolved == Served /\ resp.idErr = NoErr
Produced ==
    resp.signCalled \/ resp.ecdsaCalled \/ resp.Content # NoCOSE

\* C1: Sign (and with it the private key) is used only for a request whose
\* X-Auth-Token header equals the AuthToken stored for the resolved identity; a
\* request with another or no token is answered 401 and nothing is signed,
\* whatever its body, content type or the SKID snapshot.
C1_SignOnlyWithToken ==
    Served =>
        /\ Resolved =>
              /\ resp.identity \in Registered
              /\ resp.identity.Uid = resp.req.uuidParam
        /\ Produced =>
              /\ Resolved
              /\ resp.req.authHeader = resp.identity.AuthToken
        /\ (Resolved /\ resp.req.authHeader # resp.identity.AuthToken) =>
              /\ resp.StatusCode = StatusUnauthorized
              /\ ~Produced

\* a request without the header, otherwise fit to be signed, was answered 401
C1_Witness ==
    /\ Resolved
    /\ resp.req.authHeader = ""
    /\ resp.req.uuidParam \in DOMAIN skidStore
    /\ resp.req.contentType = CBORType /\ resp.req.body = CborDoc
    /\ ~resp.req.hashEndpoint /\ ~resp.req.bodyErr
    /\ resp.StatusCode = StatusUnauthorized

\* what every answer given on a failed resolution has in common: nothing
\* after the resolution ran
BeforeAuth ==
    /\ ~resp.authChecked /\ ~resp.bodyParsed /\ ~Produced
    /\ resp.identity = NoIdentity

\* C2 as claimed: every failed resolution is answered 404 before the auth
\* check, the body parsing and the signing.
C2_AnyFailure404 ==
    (Served /\ resp.idErr # NoErr) =>
        /\ resp.StatusCode = StatusNotFound
        /\ BeforeAuth

\* C2: a request whose path UUID does not parse, or whose identity the store
\* does not hold (ErrNotExist), is answered 404; a resolution that fails in
\* any other way is answered 500 with the generic status text; either answer
\* is given before the auth check, the body parsing and the signing, whatever
\* token the request carries.
C2_NotFoundOrInternalError ==
    Served =>
        /\ resp.req.uuidParam \notin UUIDs =>
              resp.idErr # NoErr /\ resp.StatusCode = StatusNotFound
        /\ resp.req.uuidParam \notin {id.Uid : id \in Registered} =>
              resp.idErr # NoErr
        /\ resp.idErr # NoErr =>
              /\ BeforeAuth
              /\ IF resp.idErr = ErrNotExist \/ resp.req.uuidParam \notin UUIDs
                 THEN resp.StatusCode = StatusNotFound
                 ELSE /\ resp.StatusCode = StatusInternalServerError
                      /\ resp.Message = "Internal Server Error"

\* the store stayed out of reach for a registered identity whose request
\* carried the right token: 500
C2_Witness ==
    /\ Served
    /\ resp.req.uuidParam = "u1" /\ resp.req.authHeader = "tokA"
    /\ resp.idErr = TooManyConnections
    /\ resp.StatusCode = StatusInternalServerError

\* C3: Sign answers 400 with the SKID-unknown message, without signing, when
\* the published snapshot has no entry for the UUID; 500 with the generic
\* status text when the signature cannot be made; 200 with the COSE_Sign1
\* object otherwise; and nothing else.
C3_SignStatuses ==
    (Served /\ resp.signCalled) =>
        /\ resp.StatusCode \in {StatusOK, StatusBadRequest, StatusInternalServerError}
        /\ resp.msg.ID \notin DOMAIN skidStore =>
              /\ resp.StatusCode = StatusBadRequest
              /\ resp.Message =
                    "SKID unknown for identity (missing X.509 public key certificate)"
              /\ ~resp.ecdsaCalled
              /\ resp.Content = NoCOSE
        /\ (resp.msg.ID \in DOMAIN skidStore
              /\ resp.identity.PrivateKey.form # "privPEM") =>
              /\ resp.StatusCode = StatusInternalServerError
              /\ resp.Message = "Internal Server Error"
              /\ resp.ecdsaCalled
              /\ resp.Content = NoCOSE
        /\ (resp.msg.ID \in DOMAIN skidStore
              /\ resp.identity.PrivateKey.form = "privPEM") =>
              /\ resp.StatusCode = StatusOK
              /\ resp.ecdsaCalled
              /\ resp.Content.Tag = COSE_Sign1_Tag
              /\ resp.Content.Protected = <<161, 1, 38>>
              /\ resp.Content.Kid = skidStore[resp.msg.ID]
              /\ Len(resp.Content.Kid) = SkidLen

\* Sign ran for an identity the snapshot does not know
C3_Witness ==
    /\ Served /\ resp.signCalled
    /\ resp.msg.ID \notin DOMAIN skidStore
    /\ resp.StatusCode = StatusBadRequest

\* C4 as claimed: the payload element of the COSE_Sign1 of an accepted hash
\* request is the 32 bytes of the digest that was signed.
C4_HashPayloadIsDigest ==
    (Served /\ resp.req.hashEndpoint /\ resp.StatusCode = StatusOK) =>
        /\ Len(resp.Content.Payload) = HashLen
        /\ resp.Content.Payload = resp.msg.Hash.data
        /\ resp.Content.Signature.hash = resp.msg.Hash

\* a hex encoded digest was accepted and signed
C4_Witness ==
    /\ Served /\ resp.req.hashEndpoint /\ resp.StatusCode = StatusOK
    /\ ToLower(resp.req.contentType) = TextType
    /\ resp.req.transferEncoding = HexEncoding
    /\ resp.msg.Hash = Sha256Sum(Digest1)
    /\ resp.Content.Payload = clientHex(Digest1)

\* C5: for a data request the signed hash is SHA-256 of the Sig_structure of
\* the payload, and the payload is what the COSE_Sign1 carries: the body of a
\* CBOR request, the canonical CBOR encoding of the object of a JSON request;
\* a data request of any other content type is answered 400 and not signed.
C5_DataRequestHash ==
    (Served /\ ~resp.req.hashEndpoint /\ resp.bodyParsed) =>
        /\ (~resp.req.bodyErr
              /\ ToLower(resp.req.contentType) \notin {JSONType, CBORType}) =>
              resp.StatusCode = StatusBadRequest /\ ~Produced
        /\ resp.signCalled =>
              /\ ToLower(resp.req.contentType) \in {JSONType, CBORType}
              /\ resp.msg.Hash.kind = "sha256"
              /\ resp.msg.Hash.data =
                    <<132, 106>> \o COSE_Sign1_Context \o <<67, 161, 1, 38, 64>>
                        \o cborBytes(resp.msg.Payload)
              /\ ToLower(resp.req.contentType) = CBORType =>
                    resp.msg.Payload = resp.req.body
              /\ (ToLower(resp.req.contentType) = JSONType
                    /\ resp.req.body = JsonDoc) =>
                    resp.msg.Payload = <<162, 97, 97, 97, 100, 98, 98, 98, 97, 99>>
              /\ ToLower(resp.req.contentType) = JSONType =>
                    resp.msg.Payload # resp.req.body
              /\ resp.StatusCode = StatusOK =>
                    /\ resp.Content.Payload = resp.msg.Payload
                    /\ resp.Content.Signature.hash = resp.msg.Hash

\* a JSON object was signed
C5_Witness ==
    /\ Served /\ ~resp.req.hashEndpoint
    /\ resp.req.contentType = JSONType /\ resp.req.body = JsonDoc
    /\ resp.StatusCode = StatusOK

\* C6: the signature of the COSE_Sign1 returned for a signed payload verifies
\* under the public key of the identity's key pair against the Sig_structure
\* built from the payload element of that COSE_Sign1.
C6_SignatureVerifies ==
    (Served /\ ~resp.req.hashEndpoint /\ resp.StatusCode = StatusOK) =>
        Verify(resp.identity.PublicKey, GetSigStructBytes(resp.Content.Payload),
               resp.Content.Signature)

\* a CBOR document was signed with the key of the first identity
C6_Witness ==
    /\ Served /\ ~resp.req.hashEndpoint
    /\ resp.req.body = CborDoc
    /\ resp.identity = Identity1
    /\ resp.StatusCode = StatusOK
    /\ resp.Content.Signature.signer = "k1"


(***************************************************************************)
(* SpecSkid: the reconciler's cycles, one loadSKIDs at a time, between     *)
(* well-formed signing requests of the registered identities.              *)
(***************************************************************************)
\* how many failed cycles beyond the threshold the trust list server stays down
MaxExtraFails == 2

Kid3 == <<17, 18, 19, 20, 21, 22, 23, 24>>
KidShort == <<1, 2, 3>>
X509(k) == [form |-> "x509", k |-> k]
Certificate(Kid, RawData) == [Kid |-> Kid, RawData |-> RawData]

\* certificates of the two registered keys, one of them also with a key
\* identifier of the wrong length and as bytes that are no certificate, one of
\* a key no identity has, one of a key that is not ECDSA
CertPool ==
    {Certificate(Kid1, X509("k1")), Certificate(Kid2, X509("k2")),
     Certificate(KidShort, X509("k1")), Certificate(Kid1, Junk("k1")),
     Certificate(Kid3, X509("k9")), Certificate(Kid3, X509("rsa"))}
CertLists ==
    {<<>>} \cup {<<c>> : c \in CertPool} \cup {<<c, d>> : c, d \in CertPool}

TrustList(certs) == [wellFormed |-> TRUE, certificates |-> certs]
SignedBy(signer, certList) ==
    [wellFormed |-> TRUE,
     signature |-> [signer |-> signer, hash |-> sha256_Sum256(certList)]]

\* what the trust list server answers when all is well
GoodReply(certs) ==
    [list |-> [err |-> NoErr, StatusCode |-> 200, newline |-> TRUE,
               sigLine |-> SignedBy("ts", TrustList(certs)),
               certList |-> TrustList(certs)],
     key |-> [err |-> NoErr, StatusCode |-> 200, Content |-> PubPEM("ts")]]

BothCerts == <<Certificate(Kid1, X509("k1")), Certificate(Kid2, X509("k2"))>>
UndecodableList == [wellFormed |-> FALSE, certificates |-> BothCerts]

\* the ways a request for the list fails
BadReplies ==
    {[GoodReply(BothCerts) EXCEPT !.list.err = "timeout"],
     [GoodReply(BothCerts) EXCEPT !.list.StatusCode = 500],
     [GoodReply(BothCerts) EXCEPT !.list.newline = FALSE],
     [GoodReply(BothCerts) EXCEPT !.key.err = "timeout"],
     [GoodReply(BothCerts) EXCEPT !.key.StatusCode = 500],
     [GoodReply(BothCerts) EXCEPT !.key.Content = Junk("ts")],
     [GoodReply(BothCerts) EXCEPT !.list.sigLine.wellFormed = FALSE],
     [GoodReply(BothCerts) EXCEPT !.list.sigLine =
                                      SignedBy("other", TrustList(BothCerts))],
     [GoodReply(BothCerts) EXCEPT !.list.certList = UndecodableList,
                                  !.list.sigLine = SignedBy("ts", UndecodableList)]}

TrustReplies == {GoodReply(certs) : certs \in CertLists} \cup BadReplies

\* the store during a cycle: well, out of connections for one call or for
\* all of them, refusing
CycleFaults == {f \in StoreFaults : f.transient \in {0, 1, MaxTransient}}

\* well-formed signing requests of the registered identities
ProbeRequests ==
    {[uuidParam |-> id.Uid, authHeader |-> id.AuthToken, hashEndpoint |-> FALSE,
      contentType |-> CBORType, transferEncoding |-> "", body |-> CborDoc,
      bodyErr |-> FALSE] : id \in Registered}

InitSkid ==
    /\ db = {StoredRow(id) : id \in Registered}
    /\ skidStore = EmptySkidStore
    /\ maxCertLoadFailCount \in
          {setInterval(reloadEveryMinute).maxCertLoadFailCount :
              reloadEveryMinute \in BOOLEAN}
    /\ identityCache = EmptyCache
    /\ resp = NoResp
    /\ StoreAtRest /\ ReconcilerAtRest /\ ProcessAtRest /\ StepwiseAtRest

\* one tick of the reconciler: loadSKIDs from start to end
LoadSKIDs ==
    /\ resp = NoResp
    /\ \E reply \in TrustReplies, fault \in CycleFaults :
          LET cycled(out) ==
                  /\ out.failed =>
                        certLoadFailCounter < maxCertLoadFailCount + MaxExtraFails
                  /\ skidStore' = out.skidStore
                  /\ certLoadFailCounter' = out.certLoadFailCounter
                  /\ uidCache' = out.uidCache
                  /\ cycle' = [ran |-> TRUE, failed |-> out.failed,
                               published |-> out.published, before |-> skidStore,
                               failsBefore |-> certLoadFailCounter]
          IN  cycled(loadSKIDs(skidStore, certLoadFailCounter, maxCertLoadFailCount,
                               uidCache, db, reply, fault))
    /\ UNCHANGED <<db, txs, dbOut, identityCache, maxCertLoadFailCount, resp,
                   rec, readers, skidStoreMutex, published, getters, proc,
                   csrJobs, migration>>

NextSkid == LoadSKIDs \/ HandleRequest(ProbeRequests) \/ ClientReceive

SpecSkid == InitSkid /\ [][NextSkid]_vars


\* the last cycle failed and left the count of failures below the threshold
FailedBelowThreshold ==
    cycle.ran /\ cycle.failed /\ certLoadFailCounter < maxCertLoadFailCount

\* C7: a failed cycle that leaves the count of consecutive failures below the
\* threshold publishes nothing: the mapping is the one from before the cycle,
\* GetSKID answers for every UUID as before, and a request of an identity
\* the mapping knew is still signed with its key identifier.
C7_FailedCycleKeepsMapping ==
    FailedBelowThreshold =>
        /\ ~cycle.published
        /\ skidStore = cycle.before
        /\ \A u \in UUIDs : GetSKID(skidStore, u) = GetSKID(cycle.before, u)
        /\ (Served /\ resp.signCalled /\ resp.msg.ID \in DOMAIN cycle.before) =>
              /\ resp.StatusCode # StatusBadRequest
              /\ resp.identity = Identity1 =>
                    /\ resp.StatusCode = StatusOK
                    /\ resp.Content.Kid = cycle.before[resp.msg.ID]

\* hourly profile: a request is signed after two failed cycles in a row
C7_Witness ==
    /\ maxCertLoadFailCount = 3 /\ certLoadFailCounter = 2
    /\ FailedBelowThreshold
    /\ Served /\ resp.identity = Identity1
    /\ resp.StatusCode = StatusOK

\* C8: with the count of consecutive failures at or beyond the threshold (3 or
\* 60), the published mapping is empty, GetSKID fails for every UUID and a
\* well-formed signing request is answered 400; the cycle that reaches the
\* threshold is the one that publishes the empty mapping.
C8_ThresholdClearsMapping ==
    /\ maxCertLoadFailCount \in {3, 60}
    /\ (cycle.ran /\ cycle.failed /\ certLoadFailCounter = maxCertLoadFailCount) =>
          cycle.published
    /\ certLoadFailCounter >= maxCertLoadFailCount =>
          /\ skidStore = EmptySkidStore
          /\ \A u \in UUIDs : GetSKID(skidStore, u).err # NoErr
          /\ Resolved =>
                /\ resp.signCalled /\ ~resp.ecdsaCalled
                /\ resp.StatusCode = StatusBadRequest
                /\ resp.Content = NoCOSE

\* per-minute profile: the sixtieth failure in a row cleared a mapping that
\* had entries, and the next request was answered 400
C8_Witness ==
    /\ maxCertLoadFailCount = 60 /\ certLoadFailCounter = 60
    /\ cycle.failed /\ cycle.published
    /\ cycle.before # EmptySkidStore /\ skidStore = EmptySkidStore
    /\ Resolved /\ resp.StatusCode = StatusBadRequest


(***************************************************************************)
(* SpecConc: GetSKID callers and the reconciler's setSkidStore, one lock   *)
(* operation or memory access at a time.                                   *)
(***************************************************************************)
\* how many goroutines call GetSKID at the same time
MaxReaders == 2
ReaderIds == 1..MaxReaders

NoResult == [err |-> NoErr, skid |-> <<>>]
NoReader == [pc |-> "idle", uid |-> NilUUID, got |-> NoResult]

\* trust lists that lead to three different snapshots
ConcReplies ==
    {GoodReply(BothCerts), GoodReply(<<Certificate(Kid3, X509("k1"))>>),
     GoodReply(<<>>)}

\* what a map read that races with the assignment may come back with
RaceResults ==
    {[err |-> NoErr, skid |-> k] : k \in {Kid1, Kid2, Kid3, KidShort}}
        \cup {GetSKID(EmptySkidStore, u) : u \in UUIDs}

InitConc ==
    /\ db = {StoredRow(id) : id \in Registered}
    /\ skidStore = EmptySkidStore
    /\ maxCertLoadFailCount = setInterval(FALSE).maxCertLoadFailCount
    /\ identityCache = EmptyCache
    /\ resp = NoResp
    /\ StoreAtRest /\ ReconcilerAtRest /\ ProcessAtRest
    /\ rec = RecIdle
    /\ readers = [i \in ReaderIds |-> NoReader]
    /\ skidStoreMutex = MutexFree
    /\ published = {}

\* loadSKIDs up to its call of setSkidStore
RecBuild ==
    /\ rec.pc = "idle"
    /\ \E reply \in ConcReplies :
          LET built(out) ==
                  /\ out.published
                  /\ rec' = [rec EXCEPT !.pc = "built", !.temp = out.skidStore]
                  /\ certLoadFailCounter' = out.certLoadFailCounter
                  /\ uidCache' = out.uidCache
          IN  built(loadSKIDs(skidStore, certLoadFailCounter, maxCertLoadFailCount,
                              uidCache, db, reply, NoFault))
    /\ UNCHANGED <<db, txs, dbOut, identityCache, skidStore, maxCertLoadFailCount,
                   cycle, resp, readers, skidStoreMutex, published, getters, proc,
                   csrJobs, migration>>

\* setSkidStore: p.skidStoreMutex.Lock()
RecLock ==
    /\ rec.pc = "built"
    /\ canLock(skidStoreMutex)
    /\ skidStoreMutex' = [skidStoreMutex EXCEPT !.writer = TRUE]
    /\ rec' = [rec EXCEPT !.pc = "locked"]
    /\ UNCHANGED <<db, txs, dbOut, identityCache, uidCache, skidStore,
                   certLoadFailCounter, maxCertLoadFailCount, cycle, resp,
                   readers, published, getters, proc, csrJobs, migration>>

\* setSkidStore: p.skidStore = newSkidStore
RecAssign ==
    /\ rec.pc = "locked"
    /\ skidStore' = rec.temp
    /\ published' = published \cup {rec.temp}
    /\ rec' = [rec EXCEPT !.pc = "assigned", !.last = rec.temp]
    /\ UNCHANGED <<db, txs, dbOut, identityCache, uidCache, certLoadFailCounter,
                   maxCertLoadFailCount, cycle, resp, readers, skidStoreMutex, getters, proc,
                   csrJobs, migration>>

\* setSkidStore: p.skidStoreMutex.Unlock(), and the return
RecUnlock ==
    /\ rec.pc = "assigned"
    /\ skidStoreMutex' = [skidStoreMutex EXCEPT !.writer = FALSE]
    /\ rec' = [rec EXCEPT !.pc = "idle"]
    /\ UNCHANGED <<db, txs, dbOut, identityCache, uidCache, skidStore,
                   certLoadFailCounter, maxCertLoadFailCount, cycle, resp,
                   readers, published, getters, proc, csrJobs, migration>>

\* GetSKID(uid): p.skidStoreMutex.RLock()
ReaderRLock(i) ==
    /\ readers[i].pc = "idle"
    /\ canRLock(skidStoreMutex)
    /\ \E uid \in {"u1", "u2"} :
          readers' = [readers EXCEPT ![i] = [pc |-> "rlocked", uid |-> uid,
                                             got |-> NoResult]]
    /\ skidStoreMutex' = [skidStoreMutex EXCEPT !.readers = @ + 1]
    /\ UNCHANGED <<db, txs, dbOut, identityCache, uidCache, skidStore,
                   certLoadFailCounter, maxCertLoadFailCount, cycle, resp, rec,
                   published, getters, proc, csrJobs, migration>>

\* GetSKID: skid, exists := p.skidStore[uid]; a read while the writer is
\* between Lock and Unlock is a data race and may yield anything
ReaderRead(i) ==
    /\ readers[i].pc = "rlocked"
    /\ \E got \in IF skidStoreMutex.writer THEN RaceResults
                  ELSE {GetSKID(skidStore, readers[i].uid)} :
          readers' = [readers EXCEPT ![i] = [@ EXCEPT !.pc = "read", !.got = got]]
    /\ UNCHANGED <<db, txs, dbOut, identityCache, uidCache, skidStore,
                   certLoadFailCounter, maxCertLoadFailCount, cycle, resp, rec,
                   skidStoreMutex, published, getters, proc, csrJobs,
                   migration>>

\* GetSKID: p.skidStoreMutex.RUnlock(), and the return to the caller
ReaderRUnlock(i) ==
    /\ readers[i].pc = "read"
    /\ skidStoreMutex' = [skidStoreMutex EXCEPT !.readers = @ - 1]
    /\ readers' = [readers EXCEPT ![i] = NoReader]
    /\ UNCHANGED <<db, txs, dbOut, identityCache, uidCache, skidStore,
                   certLoadFailCounter, maxCertLoadFailCount, cycle, resp, rec,
                   published, getters, proc, csrJobs, migration>>

NextConc ==
    \/ RecBuild \/ RecLock \/ RecAssign \/ RecUnlock
    \/ \E i \in ReaderIds : ReaderRLock(i)
    \/ \E i \in ReaderIds : ReaderRead(i)
    \/ \E i \in ReaderIds : ReaderRUnlock(i)

SpecConc == InitConc /\ [][NextConc]_vars

\* the snapshots a GetSKID answer can come from
Snapshots == published \cup {EmptySkidStore}

\* C9: however GetSKID callers and setSkidStore interleave, the map in place
\* is always one complete snapshot, the last one setSkidStore assigned; the
\* answer a caller holds is the entry of that snapshot, so it is a key
\* identifier of a snapshot the reconciler built; and from the assignment
\* on, so once setSkidStore has returned, the snapshot read is the new one.
C9_SnapshotReads ==
    /\ skidStore = rec.last
    /\ rec.last \in Snapshots
    /\ rec.pc \in {"assigned", "idle"} => skidStore = rec.temp
    /\ skidStoreMutex.writer = (rec.pc \in {"locked", "assigned"})
    /\ skidStoreMutex.readers =
          Cardinality({i \in ReaderIds : readers[i].pc \in {"rlocked", "read"}})
    /\ skidStoreMutex.writer => skidStoreMutex.readers = 0
    /\ \A i \in ReaderIds :
          readers[i].pc = "read" =>
              /\ readers[i].got = GetSKID(rec.last, readers[i].uid)
              /\ readers[i].got.err = NoErr =>
                    \E snapshot \in Snapshots :
                        /\ readers[i].uid \in DOMAIN snapshot
                        /\ snapshot[readers[i].uid] = readers[i].got.skid

\* two callers hold answers from the second snapshot while the reconciler
\* waits for the lock with a third one
C9_Witness ==
    /\ rec.pc = "built" /\ rec.temp # rec.last
    /\ Cardinality(published) >= 2
    /\ readers[1].pc = "read" /\ readers[1].got.skid = Kid3
    /\ readers[2].pc = "read" /\ readers[2].uid = "u2"
    /\ readers[2].got.err # NoErr


(***************************************************************************)
(* SpecDB: callers of the DatabaseManager, one method call at a time       *)
(***************************************************************************)
\* identities in storage form: the first registered one, one with the same
\* uuid and another key, one with another uuid and the same public key
DbIdentityA == protocolStoreForm(Identity1).id
DbIdentityA2 ==
    [Uid |-> "u1", PrivateKey |-> Encrypt(PrivPEM("k2")).bytes,
     PublicKey |-> PubRaw("k2"), AuthToken |-> "tokD"]
DbIdentityC ==
    [Uid |-> "u2", PrivateKey |-> Encrypt(Junk("j2")).bytes,
     PublicKey |-> PubRaw("k1"), AuthToken |-> "tokC"]
DbIdentities == {DbIdentityA, DbIdentityA2, DbIdentityC}
DbKeys == {PubRaw("k1"), PubRaw("k2"), PubRaw("k9")}

\* the database during one call: there, out of connections for the first
\* attempt, or refusing
DbFaults == {f \in StoreFaults : f.transient <= 1}

\* the rows a query by public key can return first
RowsFor(rows, pubKey) ==
    IF \E x \in rows : x.public_key = pubKey
    THEN {x \in rows : x.public_key = pubKey}
    ELSE {NoRow}

Called(op, t, uid, key, fault, found, bytes, text, err) ==
    [op |-> op, tx |-> t, uid |-> uid, key |-> key, store |-> fault.final,
     found |-> found, bytes |-> bytes, text |-> text, err |-> err]

InitDB ==
    /\ db = {}
    /\ skidStore = EmptySkidStore
    /\ maxCertLoadFailCount = setInterval(FALSE).maxCertLoadFailCount
    /\ identityCache = EmptyCache
    /\ resp = NoResp
    /\ StoreAtRest /\ ReconcilerAtRest /\ ProcessAtRest /\ StepwiseAtRest

DbUnchanged ==
    UNCHANGED <<identityCache, uidCache, skidStore, certLoadFailCounter,
                maxCertLoadFailCount, cycle, resp, rec, readers, skidStoreMutex,
                published, getters, proc, csrJobs, migration>>

StartTransaction(t) ==
    /\ txs[t].state = "none"
    /\ txs' = [txs EXCEPT ![t] = [state |-> "open", rows |-> {}, updates |-> <<>>]]
    /\ dbOut' = Called("StartTransaction", t, "", Empty, NoFault, FALSE, Empty, "", NoErr)
    /\ UNCHANGED db
    /\ DbUnchanged

\* the INSERT waits while another transaction holds an uncommitted row of the
\* same uid
StoreNewIdentity(t, identity) ==
    /\ txs[t].state # "none"
    /\ \A o \in TxIds \ {t} :
          txs[o].state # "cancelled" => \A x \in txs[o].rows : x.uid # identity.Uid
    /\ \E fault \in DbFaults :
          LET stored(out) ==
                  /\ txs' = [txs EXCEPT ![t] = out.tx]
                  /\ dbOut' = Called("StoreNewIdentity", t, identity.Uid,
                                     identity.PublicKey, fault, FALSE, Empty, "",
                                     out.err)
          IN  stored(dm_StoreNewIdentity(db, txs[t], identity, fault))
    /\ UNCHANGED db
    /\ DbUnchanged

CloseTransaction(t, commit) ==
    /\ txs[t].state # "none"
    /\ LET closed(out) ==
               /\ db' = out.committed
               /\ dbOut' = Called("CloseTransaction", t, "", Empty, NoFault, commit,
                                  Empty, "", out.err)
       IN  closed(dm_CloseTransaction(db, txs[t], commit))
    /\ txs' = [txs EXCEPT ![t] = NoTx]
    /\ DbUnchanged

\* the read methods, called outside any transaction
ReadByUid(op) ==
    \E uid \in UUIDs, fault \in DbFaults :
        LET exists(out) ==
                dbOut' = Called(op, 0, uid, Empty, fault, out.found, Empty, "", out.err)
            bytes(out) ==
                dbOut' = Called(op, 0, uid, Empty, fault, FALSE, out.bytes, "", out.err)
            text(out) ==
                dbOut' = Called(op, 0, uid, Empty, fault, FALSE, Empty, out.text, out.err)
        IN  CASE op = "Exists" -> exists(dm_Exists(db, uid, fault))
              [] op = "ExistsPrivateKey" -> exists(dm_ExistsPrivateKey(db, uid, fault))
              [] op = "ExistsPublicKey" -> exists(dm_ExistsPublicKey(db, uid, fault))
              [] op = "GetPrivateKey" -> bytes(dm_GetPrivateKey(db, uid, fault))
              [] op = "GetPublicKey" -> bytes(dm_GetPublicKey(db, uid, fault))
              [] op = "GetAuthToken" -> text(dm_GetAuthToken(db, uid, fault))

Exists == ReadByUid("Exists") /\ UNCHANGED <<db, txs>> /\ DbUnchanged
ExistsPrivateKey ==
    ReadByUid("ExistsPrivateKey") /\ UNCHANGED <<db, txs>> /\ DbUnchanged
ExistsPublicKey ==
    ReadByUid("ExistsPublicKey") /\ UNCHANGED <<db, txs>> /\ DbUnchanged
GetPrivateKey == ReadByUid("GetPrivateKey") /\ UNCHANGED <<db, txs>> /\ DbUnchanged
GetPublicKey == ReadByUid("GetPublicKey") /\ UNCHANGED <<db, txs>> /\ DbUnchanged
GetAuthToken == ReadByUid("GetAuthToken") /\ UNCHANGED <<db, txs>> /\ DbUnchanged

ExistsUuidForPublicKey ==
    /\ \E pubKey \in DbKeys, fault \in DbFaults :
          \E row \in RowsFor(db, pubKey) :
              LET called(out) ==
                      dbOut' = Called("ExistsUuidForPublicKey", 0, "", pubKey, fault,
                                      out.found, Empty, "", out.err)
              IN  called(dm_ExistsUuidForPublicKey(db, pubKey, row, fault))
    /\ UNCHANGED <<db, txs>>
    /\ DbUnchanged

CallGetUuidForPublicKey ==
    /\ \E pubKey \in DbKeys, fault \in DbFaults :
          \E row \in RowsFor(db, pubKey) :
              LET called(out) ==
                      dbOut' = Called("GetUuidForPublicKey", 0, "", pubKey, fault,
                                      FALSE, Empty, out.uid, out.err)
              IN  called(dm_GetUuidForPublicKey(db, pubKey, row, fault))
    /\ UNCHANGED <<db, txs>>
    /\ DbUnchanged

NextDB ==
    \/ \E t \in TxIds : StartTransaction(t)
    \/ \E t \in TxIds, identity \in DbIdentities : StoreNewIdentity(t, identity)
    \/ \E t \in TxIds, commit \in BOOLEAN : CloseTransaction(t, commit)
    \/ Exists \/ ExistsPrivateKey \/ ExistsPublicKey \/ ExistsUuidForPublicKey
    \/ GetPrivateKey \/ GetPublicKey \/ GetAuthToken \/ CallGetUuidForPublicKey

SpecDB == InitDB /\ [][NextDB]_vars

\* no row of the table, committed or not, has the identity's uuid or public key
NeverStored(identity) ==
    \A x \in db \cup UNION {txs[t].rows : t \in TxIds} :
        x.uid # identity.Uid /\ x.public_key # identity.PublicKey

\* the identity was stored in a transaction that committed
Committed(identity) == IdentityRow(identity) \in db

\* the last call was a read about the identity that the database answered
AskedByUid(op, identity) ==
    dbOut.op = op /\ dbOut.uid = identity.Uid /\ dbOut.store = "ok"
AskedByKey(op, identity) ==
    dbOut.op = op /\ dbOut.key = identity.PublicKey /\ dbOut.store = "ok"

\* C10 as claimed: for an identity never stored the three existence tests
\* answer false without error; once it is stored and committed they answer
\* true and the getters return the stored token, private key, public key and
\* UUID.
C10_StoreRoundTrip ==
    \A identity \in DbIdentities :
        /\ NeverStored(identity) =>
              /\ (AskedByUid("ExistsPublicKey", identity)
                    \/ AskedByUid("ExistsPrivateKey", identity)
                    \/ AskedByKey("ExistsUuidForPublicKey", identity)) =>
                    ~dbOut.found /\ dbOut.err = NoErr
        /\ Committed(identity) =>
              /\ (AskedByUid("ExistsPublicKey", identity)
                    \/ AskedByUid("ExistsPrivateKey", identity)
                    \/ AskedByKey("ExistsUuidForPublicKey", identity)) =>
                    dbOut.found /\ dbOut.err = NoErr
              /\ AskedByUid("GetAuthToken", identity) =>
                    dbOut.text = identity.AuthToken /\ dbOut.err = NoErr
              /\ AskedByUid("GetPrivateKey", identity) =>
                    dbOut.bytes = identity.PrivateKey /\ dbOut.err = NoErr
              /\ AskedByUid("GetPublicKey", identity) =>
                    dbOut.bytes = identity.PublicKey /\ dbOut.err = NoErr
              /\ AskedByKey("GetUuidForPublicKey", identity) =>
                    dbOut.text = identity.Uid /\ dbOut.err = NoErr

\* two committed identities share a public key, and the query by that key
\* returned the uuid of the first for the second
C10_Witness ==
    /\ Committed(DbIdentityA) /\ Committed(DbIdentityC)
    /\ AskedByKey("GetUuidForPublicKey", DbIdentityC)
    /\ dbOut.err = NoErr
    /\ dbOut.text = DbIdentityA.Uid

(***************************************************************************)
(* SpecTx: transactions on the identity table next to readers outside      *)
(* them (the DatabaseManager's read methods and Protocol.GetIdentity)      *)
(***************************************************************************)
\* the context given to StartTransaction is cancelled: database/sql rolls the
\* transaction back
CancelContext(t) ==
    /\ txs[t].state \in {"open", "aborted"}
    /\ txs' = [txs EXCEPT ![t].state = "cancelled"]
    /\ dbOut' = Called("cancel", t, "", Empty, NoFault, FALSE, Empty, "", NoErr)
    /\ UNCHANGED db
    /\ DbUnchanged

\* Protocol.GetIdentity, called outside any transaction
CallGetIdentity ==
    /\ \E uid \in UUIDs, fault \in DbFaults :
          LET called(out) ==
                  /\ identityCache' = out.cache
                  /\ dbOut' = Called("Protocol.GetIdentity", 0, uid, out.id.PublicKey,
                                     fault, out.err = NoErr, out.id.PrivateKey,
                                     out.id.AuthToken, out.err)
          IN  called(GetIdentity(identityCache, db, uid, fault))
    /\ UNCHANGED <<db, txs, uidCache, skidStore, certLoadFailCounter,
                   maxCertLoadFailCount, cycle, resp, rec, readers, skidStoreMutex,
                   published, getters, proc, csrJobs, migration>>

\* the identities the transactions insert: the first registered one and one
\* with another uuid and another key
DbIdentityB ==
    [Uid |-> "u2", PrivateKey |-> Encrypt(PrivPEM("k2")).bytes,
     PublicKey |-> PubRaw("k2"), AuthToken |-> "tokB"]
TxIdentities == {DbIdentityA, DbIdentityB}

\* one caller at a time holds a transaction; the readers are outside it
WriterTx == CHOOSE t \in TxIds : \A o \in TxIds : t <= o

NextTx ==
    \/ StartTransaction(WriterTx)
    \/ \E identity \in TxIdentities : StoreNewIdentity(WriterTx, identity)
    \/ \E commit \in BOOLEAN : CloseTransaction(WriterTx, commit)
    \/ CancelContext(WriterTx)
    \/ Exists \/ ExistsPrivateKey \/ ExistsPublicKey \/ ExistsUuidForPublicKey
    \/ GetPrivateKey \/ GetPublicKey \/ GetAuthToken \/ CallGetUuidForPublicKey
    \/ CallGetIdentity

SpecTx == InitDB /\ [][NextTx]_vars

\* what the last read reported exists as a committed row
ReadSeesCommitted ==
    /\ dbOut.op \in {"Exists", "ExistsPrivateKey", "ExistsPublicKey"} /\ dbOut.found
          => \E x \in db : x.uid = dbOut.uid
    /\ dbOut.op = "ExistsUuidForPublicKey" /\ dbOut.found
          => \E x \in db : x.public_key = dbOut.key
    /\ dbOut.op = "GetPrivateKey" /\ dbOut.err = NoErr
          => \E x \in db : x.uid = dbOut.uid /\ x.private_key = dbOut.bytes
    /\ dbOut.op = "GetPublicKey" /\ dbOut.err = NoErr
          => \E x \in db : x.uid = dbOut.uid /\ x.public_key = dbOut.bytes
    /\ dbOut.op = "GetAuthToken" /\ dbOut.err = NoErr
          => \E x \in db : x.uid = dbOut.uid /\ x.auth_token = dbOut.text
    /\ dbOut.op = "GetUuidForPublicKey" /\ dbOut.err = NoErr
          => \E x \in db : x.public_key = dbOut.key /\ x.uid = dbOut.text
    /\ dbOut.op = "Protocol.GetIdentity" /\ dbOut.err = NoErr
          => \E x \in db :
                /\ x.uid = dbOut.uid
                /\ x.auth_token = dbOut.text
                /\ PublicKeyBytesToPEM(x.public_key).bytes = dbOut.key
                /\ Decrypt(x.private_key).bytes = dbOut.bytes

\* rows only become committed by CloseTransaction(commit) of the open
\* transaction that inserted them
CommittedOnlyByCommit ==
    db' # db =>
        \E t \in TxIds :
            /\ txs[t].state = "open"
            /\ dbOut'.op = "CloseTransaction" /\ dbOut'.tx = t /\ dbOut'.found
            /\ db' = db \cup txs[t].rows

\* C11: a row inserted in a transaction is seen by no read outside it before
\* CloseTransaction(commit), and never after a rollback or a cancelled
\* context: every read reports committed rows only, and the committed rows
\* change only when an open transaction commits.
C11_VisibleOnlyAfterCommit ==
    [][CommittedOnlyByCommit /\ ReadSeesCommitted']_vars

\* a transaction holds an uncommitted row for u1 and the database answered a
\* read of u1's token with "no rows"
C11_Witness ==
    /\ \E t \in TxIds :
          txs[t].state = "open" /\ IdentityRow(DbIdentityA) \in txs[t].rows
    /\ \A x \in db : x.uid # DbIdentityA.Uid
    /\ dbOut.op = "GetAuthToken" /\ dbOut.uid = DbIdentityA.Uid
    /\ dbOut.store = "ok" /\ dbOut.err = ErrNoRows

(***************************************************************************)
(* Uniqueness and the second insert, checked on SpecDB                     *)
(***************************************************************************)
\* C12 as claimed: any two different committed rows differ in uid and in
\* public_key.
C12_UniqueUuidAndPublicKey ==
    \A x \in db : \A y \in db :
        x # y => x.uid # y.uid /\ x.public_key # y.public_key

\* two committed rows with different uids and the same public key
C12_Witness ==
    /\ Committed(DbIdentityA) /\ Committed(DbIdentityC)
    /\ DbIdentityA.Uid # DbIdentityC.Uid
    /\ DbIdentityA.PublicKey = DbIdentityC.PublicKey

\* C13 as claimed: StoreNewIdentity of an identity whose uuid or raw public key
\* is already committed, in a transaction that has not failed before, fails
\* with ErrExists (an insert never touches the committed rows: see C11).
C13_SecondStoreIsErrExists ==
    (/\ dbOut.op = "StoreNewIdentity" /\ dbOut.store = "ok"
     /\ dbOut.err # ErrInFailedTransaction
     /\ \E x \in db : x.uid = dbOut.uid \/ x.public_key = dbOut.key)
        => dbOut.err = ErrExists

\* the insert of a committed uuid came back with the driver's duplicate-key
\* error
C13_Witness ==
    /\ dbOut.op = "StoreNewIdentity" /\ dbOut.store = "ok"
    /\ Committed(DbIdentityA) /\ dbOut.uid = DbIdentityA.Uid
    /\ dbOut.err = ErrDuplicateKey

(***************************************************************************)
(* SpecProto: the three ways a row gets into the identity table            *)
(* (Protocol.StoreNewIdentity, DatabaseManager.StoreNewIdentity called     *)
(* directly, migrateIdentities) and Protocol.GetIdentity reading it back   *)
(***************************************************************************)
\* Protocol.StoreNewIdentity: [err, tx]
p_StoreNewIdentity(committed, tx, id, fault) ==
    LET stored(form) ==
            IF form.err # NoErr THEN [err |-> form.err, tx |-> tx]
            ELSE dm_StoreNewIdentity(committed, tx, form.id, fault)
    IN  stored(protocolStoreForm(id))

\* the loop of migrateIdentities over the identities read from the files:
\* [err, tx]
RECURSIVE migrateLoop(_, _, _, _)
migrateLoop(committed, tx, identities, fault) ==
    LET next(ins) ==
            IF ins.err # NoErr /\ ins.err # ErrExists
            THEN [err |-> ins.err, tx |-> ins.tx]
            ELSE migrateLoop(committed, ins.tx, Tail(identities), fault)
        one(id) ==
            IF BytesLen(id.PrivateKey) = 0 THEN [err |-> "empty private key", tx |-> tx]
            ELSE IF BytesLen(id.PublicKey) = 0 THEN [err |-> "empty public key", tx |-> tx]
            ELSE IF id.AuthToken = "" THEN [err |-> "empty auth token", tx |-> tx]
            ELSE next(dm_StoreNewIdentity(committed, tx, id, fault))
    IN  IF identities = <<>> THEN [err |-> NoErr, tx |-> tx]
        ELSE one(Head(identities))

\* migrateIdentities: its own transaction, committed when the loop went
\* through and rolled back by the deferred cancel() otherwise: [err, committed]
migrateIdentities(committed, identities, fault) ==
    LET closed(looped) ==
            IF looped.err # NoErr THEN [err |-> looped.err, committed |-> committed]
            ELSE dm_CloseTransaction(committed, looped.tx, TRUE)
    IN  closed(migrateLoop(committed, [state |-> "open", rows |-> {}, updates |-> <<>>],
                           identities, fault))

\* an identity with one attribute missing
Incomplete(id) ==
    {[id EXCEPT !.Uid = NilUUID], [id EXCEPT !.PrivateKey = Empty],
     [id EXCEPT !.PublicKey = Empty], [id EXCEPT !.AuthToken = ""]}

\* what callers hand to Protocol.StoreNewIdentity (keys as PEM) and to the
\* DatabaseManager or the migration (keys as stored)
ProtoIdentities == Registered \cup Incomplete(Identity1)
DirectIdentities == {DbIdentityA} \cup Incomplete(DbIdentityA)

\* how many identities one migration run carries
MaxMigrate == 2
MigrationLists ==
    UNION {[1..n -> DirectIdentities] : n \in 0..MaxMigrate}
MigrationFaults == {f \in DbFaults : f.transient = 0}

ProtocolStoreNewIdentity(t, id) ==
    /\ txs[t].state # "none"
    /\ \E fault \in DbFaults :
          LET stored(out) ==
                  /\ txs' = [txs EXCEPT ![t] = out.tx]
                  /\ dbOut' = Called("Protocol.StoreNewIdentity", t, id.Uid,
                                     id.PublicKey, fault, FALSE, id.PrivateKey,
                                     id.AuthToken, out.err)
          IN  stored(p_StoreNewIdentity(db, txs[t], id, fault))
    /\ UNCHANGED db
    /\ DbUnchanged

\* the migration waits for rows another transaction has inserted and not yet
\* committed
MigrateIdentities ==
    /\ \E identities \in MigrationLists, fault \in MigrationFaults :
          /\ \A t \in TxIds : \A x \in txs[t].rows :
                txs[t].state = "cancelled"
                   \/ \A i \in DOMAIN identities : identities[i].Uid # x.uid
          /\ LET migrated(out) ==
                     /\ db' = out.committed
                     /\ dbOut' = Called("migrateIdentities", 0, "", Empty, fault,
                                        out.err = NoErr, Empty, "", out.err)
             IN  migrated(migrateIdentities(db, identities, fault))
    /\ UNCHANGED txs
    /\ DbUnchanged

NextProto ==
    \/ StartTransaction(WriterTx)
    \/ \E id \in ProtoIdentities : ProtocolStoreNewIdentity(WriterTx, id)
    \/ \E identity \in DirectIdentities : StoreNewIdentity(WriterTx, identity)
    \/ \E commit \in BOOLEAN : CloseTransaction(WriterTx, commit)
    \/ MigrateIdentities
    \/ CallGetIdentity

SpecProto == InitDB /\ [][NextProto]_vars

\* C14 as claimed: every committed row has a non-Nil uuid, a non-empty private
\* key, a non-empty public key and a non-empty auth token.
C14_PersistedFieldsNotEmpty ==
    \A x \in db :
        /\ x.uid # NilUUID
        /\ BytesLen(x.private_key) > 0
        /\ BytesLen(x.public_key) > 0
        /\ x.auth_token # ""

\* a row without auth token was committed through the DatabaseManager
C14_Witness ==
    /\ dbOut.op = "CloseTransaction" /\ dbOut.found /\ dbOut.err = NoErr
    /\ IdentityRow([DbIdentityA EXCEPT !.AuthToken = ""]) \in db

\* the row Protocol.StoreNewIdentity is to hand to the store for an identity:
\* the private key encrypted, the public key as raw bytes
ProtocolRow(id) ==
    [uid |-> id.Uid,
     private_key |-> [form |-> "enc", k |-> id.PrivateKey.form \o ":" \o id.PrivateKey.k],
     public_key |-> [form |-> "pubRaw", k |-> id.PublicKey.k],
     auth_token |-> id.AuthToken]

\* C16: a successful Protocol.StoreNewIdentity(tx, id) has put into the
\* transaction a row with the encrypted private key and the raw public key (not
\* the PEM values it was given), and once that row is committed
\* Protocol.GetIdentity(id.Uid) returns the original private key PEM, public
\* key PEM and auth token.
C16_ProtocolRoundTrip ==
    /\ dbOut.op = "Protocol.StoreNewIdentity" /\ dbOut.err = NoErr =>
          \E x \in txs[dbOut.tx].rows :
              /\ x.uid = dbOut.uid /\ x.auth_token = dbOut.text
              /\ x.private_key.form = "enc" /\ x.private_key # dbOut.bytes
              /\ Decrypt(x.private_key).bytes = dbOut.bytes
              /\ x.public_key.form = "pubRaw" /\ x.public_key # dbOut.key
              /\ x.public_key.k = dbOut.key.k
    /\ \A id \in Registered :
          (/\ ProtocolRow(id) \in db
           /\ dbOut.op = "Protocol.GetIdentity" /\ dbOut.uid = id.Uid
           /\ (dbOut.store = "ok" \/ dbOut.err = NoErr))
             => /\ dbOut.err = NoErr
                /\ dbOut.bytes = id.PrivateKey
                /\ dbOut.key = id.PublicKey
                /\ dbOut.text = id.AuthToken

\* the second identity, which only Protocol.StoreNewIdentity inserts, was
\* committed and read back
C16_Witness ==
    /\ ProtocolRow(Identity2) \in db
    /\ dbOut.op = "Protocol.GetIdentity" /\ dbOut.uid = Identity2.Uid
    /\ dbOut.err = NoErr
    /\ dbOut.bytes = Identity2.PrivateKey

(***************************************************************************)
(* Updates of stored rows: SetAuthToken and SetPublicKey                   *)
(***************************************************************************)
\* the number of UPDATE statements explored in one transaction
MaxUpdates == 2

NewTokens == {"tokX"}
NewPublicKeys == {PubRaw("k9")}

InitUpdate ==
    /\ db = {StoredRow(id) : id \in Registered}
    /\ identityCache = EmptyCache
    /\ skidStore = EmptySkidStore
    /\ maxCertLoadFailCount = setInterval(FALSE).maxCertLoadFailCount
    /\ resp = NoResp
    /\ StoreAtRest /\ ReconcilerAtRest /\ ProcessAtRest /\ StepwiseAtRest

SetAuthToken(t) ==
    \E uid \in UUIDs, authToken \in NewTokens, fault \in DbFaults :
        /\ txs[t].state # "none"
        /\ Len(txs[t].updates) < MaxUpdates
        /\ LET set(out) ==
                   /\ txs' = [txs EXCEPT ![t] = out.tx]
                   /\ dbOut' = Called("SetAuthToken", t, uid, Empty, fault, FALSE,
                                      Empty, authToken, out.err)
           IN  set(dm_SetAuthToken(txs[t], uid, authToken, fault))
        /\ UNCHANGED db
        /\ DbUnchanged

SetPublicKey(t) ==
    \E uid \in UUIDs, pub \in NewPublicKeys, fault \in DbFaults :
        /\ txs[t].state # "none"
        /\ Len(txs[t].updates) < MaxUpdates
        /\ LET set(out) ==
                   /\ txs' = [txs EXCEPT ![t] = out.tx]
                   /\ dbOut' = Called("SetPublicKey", t, uid, pub, fault, FALSE,
                                      Empty, "", out.err)
           IN  set(dm_SetPublicKey(txs[t], uid, pub, fault))
        /\ UNCHANGED db
        /\ DbUnchanged

NextUpdate ==
    \/ StartTransaction(WriterTx)
    \/ SetAuthToken(WriterTx)
    \/ SetPublicKey(WriterTx)
    \/ \E commit \in BOOLEAN : CloseTransaction(WriterTx, commit)
    \/ GetPublicKey
    \/ GetAuthToken

SpecUpdate == InitUpdate /\ [][NextUpdate]_vars

\* the SetAuthToken statements a closing transaction brings to a row
TokenSetBy(tx, uid, token) ==
    \E i \in DOMAIN tx.updates :
        /\ tx.updates[i].uid = uid
        /\ tx.updates[i].column = "auth_token"
        /\ tx.updates[i].value = token

\* C15: no step of the store changes the private_key or the public_key of a
\* persisted row, and a row's auth_token changes only to a value that a
\* SetAuthToken for that row's uuid has set in the committing transaction
C15_KeysImmutable ==
    [][\A x \in db :
          \E y \in db' :
              /\ y.uid = x.uid
              /\ y.private_key = x.private_key
              /\ y.public_key = x.public_key
              /\ y.auth_token # x.auth_token =>
                     \E t \in TxIds : TokenSetBy(txs[t], x.uid, y.auth_token)]_vars

\* a committed SetPublicKey has replaced the public key of a stored row
C15_Witness ==
    /\ dbOut.op = "CloseTransaction"
    /\ dbOut.err = NoErr
    /\ \E x \in db, id \in Registered :
           /\ x.uid = id.Uid
           /\ x.public_key \in NewPublicKeys
           /\ x.public_key # StoredRow(id).public_key

(***************************************************************************)
(* Lookup of an unknown public key                                         *)
(***************************************************************************)
\* C18: when the store answers a GetUuidForPublicKey for a public key that no
\* committed identity has, the error it returns is ErrNotExist
C18_UnknownKeyIsErrNotExist ==
    (/\ dbOut.op = "GetUuidForPublicKey"
     /\ dbOut.store = "ok"
     /\ \A x \in db : x.public_key # dbOut.key) =>
        dbOut.err = ErrNotExist

\* the store was reachable, no committed row has the key, and the call
\* returned the driver's sql.ErrNoRows with the Nil uuid
C18_Witness ==
    /\ dbOut.op = "GetUuidForPublicKey"
    /\ dbOut.store = "ok"
    /\ \A x \in db : x.public_key # dbOut.key
    /\ dbOut.err = ErrNoRows
    /\ dbOut.text = NilUUID

(***************************************************************************)
(* Registration of new identities: initIdentities / initIdentity           *)
(***************************************************************************)
\* the calls of initIdentity and registerPublicKey that can fail
InitSteps ==
    {"GenerateKey", "GetPublicKeyFromPrivateKey", "SetPrivateKey", "SetPublicKey",
     "GetSignedKeyRegistration", "GetCSR", "SubmitKeyRegistration"}
InitFailures == InitSteps \cup {"none"}

\* the error of initIdentity when the call named failAt fails
initError(failAt) ==
    IF failAt = "GenerateKey" THEN "generating new key failed"
    ELSE IF failAt = "GetSignedKeyRegistration"
    THEN "error creating public key certificate"
    ELSE IF failAt = "GetCSR" THEN "creating CSR failed"
    ELSE IF failAt = "SubmitKeyRegistration" THEN "key registration failed"
    ELSE failAt \o " failed"
InitErrors == {initError(s) : s \in InitSteps}

\* GenerateKey: the key pair made for a uuid
GenerateKey(uid) == PrivPEM("new-" \o uid)
GetPublicKeyFromPrivateKey(privKeyPEM) == PubPEM(privKeyPEM.k)

\* Protocol.SetPrivateKey(uid, privKeyPEM) and Protocol.SetPublicKey(uid,
\* pubKeyPEM): the key is persisted for the uuid when the call returns; there
\* is no transaction argument
setKey(rows, uid, column, value) ==
    IF \E x \in rows : x.uid = uid
    THEN {setColumn(x, [uid |-> uid, column |-> column, value |-> value]) : x \in rows}
    ELSE rows \cup {[IdentityRow([NoIdentity EXCEPT !.Uid = uid])
                       EXCEPT ![column] = value]}
p_SetPrivateKey(rows, uid, privKeyPEM) ==
    setKey(rows, uid, "private_key", Encrypt(privKeyPEM).bytes)
p_SetPublicKey(rows, uid, pubKeyPEM) ==
    setKey(rows, uid, "public_key", PublicKeyPEMToBytes(pubKeyPEM).bytes)

\* IdentityHandler.registerPublicKey: the error
registerPublicKey(privKeyPEM, uid, failAt) ==
    IF failAt \in {"GetSignedKeyRegistration", "GetCSR", "SubmitKeyRegistration"}
    THEN initError(failAt)
    ELSE NoErr

\* IdentityHandler.initIdentity: [err, rows]
initIdentity(rows, id, failAt) ==
    LET registered(privKeyPEM, stored) ==
            [err |-> registerPublicKey(privKeyPEM, id.Uid, failAt), rows |-> stored]
        storePublic(privKeyPEM, pubKeyPEM, stored) ==
            IF failAt = "SetPublicKey"
            THEN [err |-> initError(failAt), rows |-> stored]
            ELSE registered(privKeyPEM, p_SetPublicKey(stored, id.Uid, pubKeyPEM))
        storePrivate(privKeyPEM) ==
            IF failAt = "GetPublicKeyFromPrivateKey" \/ failAt = "SetPrivateKey"
            THEN [err |-> initError(failAt), rows |-> rows]
            ELSE storePublic(privKeyPEM, GetPublicKeyFromPrivateKey(privKeyPEM),
                             p_SetPrivateKey(rows, id.Uid, privKeyPEM))
    IN  IF failAt = "GenerateKey"
        THEN [err |-> initError(failAt), rows |-> rows]
        ELSE storePrivate(GenerateKey(id.Uid))

\* IdentityHandler.initIdentities from the i-th identity on: [err, uid, rows],
\* uid being the identity the loop stopped at
RECURSIVE initIdentities(_, _, _, _, _)
initIdentities(rows, identities, i, failAt, fault) ==
    IF i > Len(identities)
    THEN [err |-> NoErr, uid |-> NilUUID, rows |-> rows]
    ELSE LET id == identities[i]
             initialized(out) ==
                 IF out.err # NoErr
                 THEN [err |-> out.err, uid |-> id.Uid, rows |-> out.rows]
                 ELSE initIdentities(out.rows, identities, i + 1, failAt, fault)
             checked(ans) ==
                 IF ans.err # NoErr
                 THEN [err |-> "can not check existing context", uid |-> id.Uid,
                       rows |-> rows]
                 ELSE IF ans.found
                 THEN initIdentities(rows, identities, i + 1, failAt, fault)
                 ELSE IF id.AuthToken = ""
                 THEN [err |-> "missing auth token", uid |-> id.Uid, rows |-> rows]
                 ELSE initialized(initIdentity(rows, id, failAt))
         IN  checked(dm_ExistsPrivateKey(rows, id.Uid, fault))

\* the identities of the configuration: uuid and auth token, no keys yet
ConfigIdentity(uid, token) == [NoIdentity EXCEPT !.Uid = uid, !.AuthToken = token]
ConfigIdentities ==
    {ConfigIdentity("u1", "tokA"), ConfigIdentity("u2", "tokB"),
     ConfigIdentity("u3", "")}
\* the number of identities in the configuration
MaxConfig == 2
ConfigLists ==
    {<<>>} \cup UNION {[1..n -> ConfigIdentities] : n \in 1..MaxConfig}

\* PUT /register: initIdentity for a uuid that does not exist yet
InitIdentity ==
    \E id \in ConfigIdentities, failAt \in InitFailures :
        /\ \A x \in db : x.uid # id.Uid
        /\ LET done(out) ==
                   /\ db' = out.rows
                   /\ dbOut' = Called("initIdentity", 0, id.Uid, Empty, NoFault,
                                      out.err = NoErr, Empty, failAt, out.err)
           IN  done(initIdentity(db, id, failAt))
        /\ UNCHANGED txs
        /\ DbUnchanged

\* initIdentities at the start of the service
InitIdentities ==
    \E identities \in ConfigLists, failAt \in InitFailures, fault \in DbFaults :
        /\ LET done(out) ==
                   /\ db' = out.rows
                   /\ dbOut' = Called("initIdentities", 0, out.uid, Empty, fault,
                                      out.err = NoErr, Empty, failAt, out.err)
           IN  done(initIdentities(db, identities, 1, failAt, fault))
        /\ UNCHANGED txs
        /\ DbUnchanged

NextInit ==
    \/ InitIdentity
    \/ InitIdentities
    \/ ExistsPrivateKey
    \/ ExistsPublicKey

SpecInit == InitDB /\ [][NextInit]_vars

\* C19: when initIdentity has returned an error, no key material of that uuid
\* is persisted
C19_PersistedOnlyIfRegistered ==
    (/\ dbOut.op \in {"initIdentity", "initIdentities"}
     /\ dbOut.err \in InitErrors) =>
        \A x \in db : x.uid # dbOut.uid

\* the backend refused the key registration, initIdentity returned the
\* error, and the row of the uuid holds both keys
C19_Witness ==
    /\ dbOut.op = "initIdentity"
    /\ dbOut.err = initError("SubmitKeyRegistration")
    /\ \E x \in db :
           /\ x.uid = dbOut.uid
           /\ x.private_key = Encrypt(GenerateKey(x.uid)).bytes
           /\ x.public_key = PubRaw(GenerateKey(x.uid).k)

(***************************************************************************)
(* Protocol.GetIdentity called concurrently: the identity cache            *)
(***************************************************************************)
\* identityCache.Load(uid) and the type assertion: [found, id]
identityCache_Load(cache, uid) ==
    IF uid \in DOMAIN cache
    THEN [found |-> TRUE, id |-> cache[uid]]
    ELSE [found |-> FALSE, id |-> NoIdentity]

\* identityCache.Store(uid, id): the last writer wins
identityCache_Store(cache, uid, id) ==
    [u \in DOMAIN cache \cup {uid} |-> IF u = uid THEN id ELSE cache[u]]

\* a GetIdentity that goes on to the Store after a failed fetch
afterFetch_CacheFailure(fetched) ==
    [pc |-> "fetched", err |-> fetched.err, id |-> fetched.id]

\* "if err != nil { return nil, err }" after fetchIdentityFromStorage: where
\* the caller goes next, [pc, err, id]
afterFetch(fetched) ==
    IF fetched.err # NoErr
    THEN [pc |-> "done", err |-> fetched.err, id |-> NoIdentity]
    ELSE [pc |-> "fetched", err |-> NoErr, id |-> fetched.id]

\* the first successful result per uuid, once a call has returned it
firstResult(first, uid, err, id) ==
    IF err = NoErr /\ uid \notin DOMAIN first
    THEN identityCache_Store(first, uid, id)
    ELSE first

\* the uuids looked up: one that gets registered, one that never is
GetterUuids == {Identity1.Uid, "u3"}

CacheUnchanged ==
    UNCHANGED <<db, txs, dbOut, uidCache, skidStore, certLoadFailCounter,
                maxCertLoadFailCount, cycle, resp, rec, readers, skidStoreMutex,
                published, proc, csrJobs, migration>>

\* a caller enters GetIdentity(uid) and loads from the cache; on a hit it
\* returns the cached identity
GetIdentityLoad(i) ==
    \E uid \in GetterUuids :
        /\ getters.calls[i].pc \in {"idle", "done"}
        /\ LET loaded(hit) ==
                   getters' =
                       IF hit.found
                       THEN [calls |-> [getters.calls EXCEPT ![i] =
                                [pc |-> "done", uid |-> uid,
                                 later |-> uid \in DOMAIN getters.first,
                                 err |-> NoErr, id |-> hit.id]],
                             first |-> firstResult(getters.first, uid, NoErr, hit.id)]
                       ELSE [getters EXCEPT !.calls[i] =
                                [pc |-> "missed", uid |-> uid,
                                 later |-> uid \in DOMAIN getters.first,
                                 err |-> NoErr, id |-> NoIdentity]]
           IN  loaded(identityCache_Load(identityCache, uid))
        /\ UNCHANGED identityCache
        /\ CacheUnchanged

\* fetchIdentityFromStorage; a failed fetch returns its error
GetIdentityFetch(i) ==
    \E fault \in DbFaults :
        /\ getters.calls[i].pc = "missed"
        /\ LET fetched(next) ==
                   getters' =
                       [calls |-> [getters.calls EXCEPT ![i].pc = next.pc,
                                                        ![i].err = next.err,
                                                        ![i].id = next.id],
                        first |-> getters.first]
           IN  fetched(afterFetch(fetchIdentityFromStorage(db, getters.calls[i].uid,
                                                           fault)))
        /\ UNCHANGED identityCache
        /\ CacheUnchanged

\* identityCache.Store(uid, id)
GetIdentityStore(i) ==
    /\ getters.calls[i].pc = "fetched"
    /\ identityCache' = identityCache_Store(identityCache, getters.calls[i].uid,
                                            getters.calls[i].id)
    /\ getters' = [getters EXCEPT !.calls[i].pc = "stored"]
    /\ CacheUnchanged

\* "return id, nil"
GetIdentityReturn(i) ==
    /\ getters.calls[i].pc = "stored"
    /\ getters' =
          [calls |-> [getters.calls EXCEPT ![i].pc = "done"],
           first |-> firstResult(getters.first, getters.calls[i].uid,
                                 getters.calls[i].err, getters.calls[i].id)]
    /\ UNCHANGED identityCache
    /\ CacheUnchanged

NextCache ==
    \/ \E i \in GetterIds : GetIdentityLoad(i)
    \/ \E i \in GetterIds : GetIdentityFetch(i)
    \/ \E i \in GetterIds : GetIdentityStore(i)
    \/ \E i \in GetterIds : GetIdentityReturn(i)
    \/ StartTransaction(WriterTx)
    \/ ProtocolStoreNewIdentity(WriterTx, Identity1)
    \/ \E commit \in BOOLEAN : CloseTransaction(WriterTx, commit)

SpecCache == InitDB /\ [][NextCache]_vars

\* C17: a GetIdentity(u) entered after a GetIdentity(u) has returned
\* successfully returns without error the identity the first one returned,
\* whatever the store does and however the calls interleave; the cache holds
\* nothing but identities fetched from committed rows
C17_CacheCoherence ==
    /\ \A i \in GetterIds :
          (getters.calls[i].pc = "done" /\ getters.calls[i].later) =>
              /\ getters.calls[i].err = NoErr
              /\ getters.calls[i].id = getters.first[getters.calls[i].uid]
    /\ \A u \in DOMAIN identityCache :
          /\ identityCache[u] # NoIdentity
          /\ identityCache[u] = fetchIdentityFromStorage(db, u, NoFault).id

\* one caller has missed the cache, fetched and installed the identity, and
\* a call entered after a success has returned the same identity, while a
\* lookup of another uuid has failed and left no cache entry
C17_Witness ==
    \E i, j \in GetterIds :
        /\ i # j
        /\ getters.calls[i].pc = "done" /\ getters.calls[i].later
        /\ getters.calls[i].err = NoErr
        /\ getters.calls[i].id = getters.first[getters.calls[i].uid]
        /\ getters.calls[j].pc = "done" /\ getters.calls[j].err # NoErr
        /\ getters.calls[j].uid \notin DOMAIN identityCache

(***************************************************************************)
(* Shutdown: the cancellation signal, the server, the reconciler goroutine *)
(* and the deferred close of the store                                     *)
(***************************************************************************)
ShutdownUnchanged ==
    UNCHANGED <<db, txs, dbOut, identityCache, maxCertLoadFailCount, resp,
                rec, readers, skidStoreMutex, published, getters, csrJobs,
                migration>>
ReconcilerUnchanged ==
    UNCHANGED <<skidStore, certLoadFailCounter, uidCache, cycle>>

\* shutdown(cancel): a termination signal arrives and cancel() is called
Shutdown ==
    /\ proc.main = "waiting"
    /\ proc.ctx = "live"
    /\ proc' = [proc EXCEPT !.ctx = "cancelled"]
    /\ ReconcilerUnchanged /\ ShutdownUnchanged

\* httpServer.Serve(ctx, serverReady) returns once ctx is done
ServerStops ==
    /\ proc.main = "waiting"
    /\ proc.ctx = "cancelled"
    /\ proc.server = "serving"
    /\ proc' = [proc EXCEPT !.server = "stopped"]
    /\ ReconcilerUnchanged /\ ShutdownUnchanged

\* g.Wait() returns, main returns: the deferred ctxManager.Close() closes
\* the store and the process ends with every goroutine it still has
MainReturns ==
    /\ proc.main = "waiting"
    /\ proc.server = "stopped"
    /\ proc' = [proc EXCEPT !.main = "returned", !.store = "closed"]
    /\ ReconcilerUnchanged /\ ShutdownUnchanged

\* the reconciler goroutine starts, or time.Tick delivers the next tick: the
\* goroutine enters loadSKIDs; nothing in the loop looks at ctx
Tick ==
    /\ proc.main = "waiting"
    /\ proc.reconciler = "waiting"
    /\ proc' = [proc EXCEPT !.reconciler = "cycling", !.tickCtx = proc.ctx]
    /\ ReconcilerUnchanged /\ ShutdownUnchanged

\* loadSKIDs runs to its end and the goroutine goes back to the tick channel
CycleEnds ==
    /\ proc.main = "waiting"
    /\ proc.reconciler = "cycling"
    /\ \E reply \in TrustReplies, fault \in CycleFaults :
          LET cycled(out) ==
                  /\ out.failed =>
                        certLoadFailCounter < maxCertLoadFailCount + MaxExtraFails
                  /\ skidStore' = out.skidStore
                  /\ certLoadFailCounter' = out.certLoadFailCounter
                  /\ uidCache' = out.uidCache
                  /\ cycle' = [ran |-> TRUE, failed |-> out.failed,
                               published |-> out.published, before |-> skidStore,
                               failsBefore |-> certLoadFailCounter]
          IN  cycled(loadSKIDs(skidStore, certLoadFailCounter, maxCertLoadFailCount,
                               uidCache, db, reply, fault))
    /\ proc' = [proc EXCEPT !.reconciler = "waiting"]
    /\ ShutdownUnchanged

NextShutdown ==
    \/ Shutdown
    \/ ServerStops
    \/ MainReturns
    \/ Tick
    \/ CycleEnds

SpecShutdown == InitSkid /\ [][NextShutdown]_vars

\* C20: once the cancellation signal has fired, the reconciler starts no
\* loadSKIDs cycle at a tick, and when the store gets closed the reconciler
\* has terminated
C20_ReconcilerStopsOnCancel ==
    [][/\ proc.ctx = "cancelled" =>
              ~(proc.reconciler = "waiting" /\ proc'.reconciler = "cycling")
       /\ proc'.store = "closed" => proc'.reconciler = "stopped"]_vars

\* a loadSKIDs cycle is running that began at a tick after the cancellation
C20_Witness ==
    /\ proc.ctx = "cancelled"
    /\ proc.reconciler = "cycling"
    /\ proc.tickCtx = "cancelled"

(***************************************************************************)
(* Concurrent stores: storeIdentity / checkIdentity of the load test       *)
(***************************************************************************)
\* generateRandomIdentity: the identity of the t-th goroutine, its uuid and
\* key unlike any other's
LoadIdentity(t) ==
    [Uid |-> "u" \o ToString(t),
     PrivateKey |-> Encrypt(PrivPEM("k" \o ToString(t))).bytes,
     PublicKey |-> PubRaw("k" \o ToString(t)),
     AuthToken |-> "tok" \o ToString(t)]

\* checkIdentity: the error it returns, "" when every read gave the
\* identity's own value; row is the row the queries by public key see first
checkIdentity(rows, id, row, fault) ==
    LET token(ans) ==
            IF ans.err # NoErr THEN ans.err
            ELSE IF ans.text # id.AuthToken
            THEN "GetAuthToken returned unexpected value"
            ELSE NoErr
        bytes(ans, expected, what) ==
            IF ans.err # NoErr THEN ans.err
            ELSE IF ans.bytes # expected THEN what \o " returned unexpected value"
            ELSE NoErr
        owner(ans) ==
            IF ans.err # NoErr THEN ans.err
            ELSE IF ans.uid # id.Uid
            THEN "GetUuidForPublicKey returned unexpected value"
            ELSE NoErr
        exists(ans, what) ==
            IF ans.err # NoErr THEN ans.err
            ELSE IF ~ans.found THEN what \o " returned FALSE"
            ELSE NoErr
        first(errs) ==
            IF \E i \in DOMAIN errs : errs[i] # NoErr
            THEN errs[CHOOSE i \in DOMAIN errs :
                         errs[i] # NoErr /\ \A j \in 1..(i - 1) : errs[j] = NoErr]
            ELSE NoErr
    IN  first(<<exists(dm_ExistsPublicKey(rows, id.Uid, fault), "ExistsPublicKey"),
                exists(dm_ExistsPrivateKey(rows, id.Uid, fault), "ExistsPrivateKey"),
                exists(dm_ExistsUuidForPublicKey(rows, id.PublicKey, row, fault),
                       "ExistsUuidForPublicKey"),
                token(dm_GetAuthToken(rows, id.Uid, fault)),
                bytes(dm_GetPrivateKey(rows, id.Uid, fault), id.PrivateKey,
                      "GetPrivateKey"),
                bytes(dm_GetPublicKey(rows, id.Uid, fault), id.PublicKey,
                      "GetPublicKey"),
                owner(dm_GetUuidForPublicKey(rows, id.PublicKey, row, fault))>>)

\* checkIdentity for the identity of goroutine t, once it has stored it
CheckIdentity(t) ==
    /\ Committed(LoadIdentity(t))
    /\ \E fault \in DbFaults :
          \E row \in RowsFor(db, LoadIdentity(t).PublicKey) :
              dbOut' = Called("checkIdentity", t, LoadIdentity(t).Uid,
                              LoadIdentity(t).PublicKey, fault, TRUE, Empty, "",
                              checkIdentity(db, LoadIdentity(t), row, fault))
    /\ UNCHANGED <<db, txs>>
    /\ DbUnchanged

\* the goroutines of the test: each runs storeIdentity once, step by step,
\* and returns at the first error, leaving its transaction as it is; then
\* checkIdentity
NextLoad ==
    \/ \E t \in TxIds : ~Committed(LoadIdentity(t)) /\ StartTransaction(t)
    \/ \E t \in TxIds :
          /\ txs[t].state = "open" /\ txs[t].rows = {}
          /\ StoreNewIdentity(t, LoadIdentity(t))
    \/ \E t \in TxIds : txs[t].rows # {} /\ CloseTransaction(t, TRUE)
    \/ \E t \in TxIds : CheckIdentity(t)
    \/ ExistsPrivateKey \/ ExistsPublicKey \/ ExistsUuidForPublicKey
    \/ GetPrivateKey \/ GetPublicKey \/ GetAuthToken \/ CallGetUuidForPublicKey

SpecLoad == InitDB /\ [][NextLoad]_vars

\* a read about a committed identity that the database answered has given
\* the identity's own value
ReadsOwnValues(identity) ==
    /\ (AskedByUid("ExistsPublicKey", identity)
          \/ AskedByUid("ExistsPrivateKey", identity)
          \/ AskedByKey("ExistsUuidForPublicKey", identity)) =>
          dbOut.found /\ dbOut.err = NoErr
    /\ AskedByUid("GetAuthToken", identity) =>
          dbOut.text = identity.AuthToken /\ dbOut.err = NoErr
    /\ AskedByUid("GetPrivateKey", identity) =>
          dbOut.bytes = identity.PrivateKey /\ dbOut.err = NoErr
    /\ AskedByUid("GetPublicKey", identity) =>
          dbOut.bytes = identity.PublicKey /\ dbOut.err = NoErr
    /\ AskedByKey("GetUuidForPublicKey", identity) =>
          dbOut.text = identity.Uid /\ dbOut.err = NoErr

\* C21: with pairwise distinct identities and a database that answers, every
\* step of every storeIdentity succeeds however the transactions interleave,
\* a committed transaction's row is in the table, the table holds only rows
\* of the stored identities, one per uuid and per public key, and
\* checkIdentity finds each identity's own values
C21_ConcurrentStoresSucceed ==
    /\ (/\ dbOut.op \in {"StartTransaction", "StoreNewIdentity",
                          "CloseTransaction", "checkIdentity"}
        /\ dbOut.store = "ok") => dbOut.err = NoErr
    /\ dbOut.op = "CloseTransaction" => Committed(LoadIdentity(dbOut.tx))
    /\ \A x \in db : \E t \in TxIds : x = IdentityRow(LoadIdentity(t))
    /\ \A x, y \in db : x.uid = y.uid \/ x.public_key = y.public_key => x = y
    /\ \A t \in TxIds : Committed(LoadIdentity(t)) => ReadsOwnValues(LoadIdentity(t))

\* checkIdentity has succeeded for a committed identity while another
\* transaction, begun before that commit, still holds its uncommitted row
C21_Witness ==
    /\ dbOut.op = "checkIdentity" /\ dbOut.err = NoErr
    /\ Committed(LoadIdentity(dbOut.tx))
    /\ \E o \in TxIds \ {dbOut.tx} : txs[o].state = "open" /\ txs[o].rows # {}

(***************************************************************************)
(* The reconciler's failure counter                                        *)
(***************************************************************************)
\* C22: certLoadFailCounter is the number of failed cycles since the last
\* cycle that fetched and verified the trust list: such a cycle sets it to
\* zero, a failed one adds one; a failed cycle publishes (the empty mapping)
\* only when that number is exactly the threshold and otherwise leaves the
\* published mapping as it was
C22_CounterCountsConsecutiveFailures ==
    cycle.ran =>
        /\ ~cycle.failed => certLoadFailCounter = 0
        /\ cycle.failed => certLoadFailCounter = cycle.failsBefore + 1
        /\ (cycle.failed /\ cycle.published) =>
              certLoadFailCounter = maxCertLoadFailCount
        /\ (cycle.failed /\ certLoadFailCounter # maxCertLoadFailCount) =>
              ~cycle.published /\ skidStore = cycle.before

\* a verified cycle has set the counter back to zero from one below the
\* threshold, and the mapping published before the failures was still there
C22_Witness ==
    /\ cycle.ran /\ ~cycle.failed
    /\ cycle.failsBefore = maxCertLoadFailCount - 1
    /\ certLoadFailCounter = 0
    /\ cycle.before # EmptySkidStore

(***************************************************************************)
(* What a reconciliation cycle publishes                                   *)
(***************************************************************************)
InitTrust ==
    /\ InitSkid
    /\ maxCertLoadFailCount = setInterval(FALSE).maxCertLoadFailCount

\* one tick of the reconciler, the answers of the trust list server kept
\* with the cycle
ReconcileCycle ==
    /\ \E reply \in TrustReplies, fault \in CycleFaults :
          LET cycled(out) ==
                  /\ out.failed =>
                        certLoadFailCounter < maxCertLoadFailCount + MaxExtraFails
                  /\ skidStore' = out.skidStore
                  /\ certLoadFailCounter' = out.certLoadFailCounter
                  /\ uidCache' = out.uidCache
                  /\ cycle' = [ran |-> TRUE, failed |-> out.failed,
                               published |-> out.published, before |-> skidStore,
                               failsBefore |-> certLoadFailCounter,
                               reply |-> reply, store |-> fault.final]
          IN  cycled(loadSKIDs(skidStore, certLoadFailCounter, maxCertLoadFailCount,
                               uidCache, db, reply, fault))
    /\ UNCHANGED <<db, txs, dbOut, identityCache, maxCertLoadFailCount, resp,
                   rec, readers, skidStoreMutex, published, getters, proc,
                   csrJobs, migration>>

NextTrust == ReconcileCycle

SpecTrust == InitTrust /\ [][NextTrust]_vars

\* the trust list of the answer was obtained, its signature decodes and is
\* one of the signer key served over the bytes of the list, and the list is
\* well-formed JSON
ListVerified(reply) ==
    /\ reply.list.err = NoErr /\ ~HttpFailed(reply.list.StatusCode)
    /\ reply.list.newline
    /\ reply.key.err = NoErr /\ ~HttpFailed(reply.key.StatusCode)
    /\ reply.key.Content.form = "pubPEM"
    /\ reply.list.sigLine.wellFormed
    /\ reply.list.sigLine.signature.signer = reply.key.Content.k
    /\ reply.list.sigLine.signature.hash = sha256_Sum256(reply.list.certList)
    /\ reply.list.certList.wellFormed

\* C23: a cycle whose trust list did not pass verification counts as a
\* failure and publishes no entry (it leaves the mapping, or clears it at the
\* threshold); a cycle that leaves the mapping changed has verified its list,
\* and every pair it published has its key identifier from that list
C23_OnlyVerifiedListsPublished ==
    cycle.ran =>
        /\ ~ListVerified(cycle.reply) =>
              /\ cycle.failed
              /\ certLoadFailCounter = cycle.failsBefore + 1
              /\ skidStore = (IF cycle.published THEN EmptySkidStore ELSE cycle.before)
        /\ ~cycle.published => skidStore = cycle.before
        /\ (cycle.published /\ skidStore # EmptySkidStore) =>
              /\ ListVerified(cycle.reply)
              /\ \A u \in DOMAIN skidStore :
                    \E i \in DOMAIN cycle.reply.list.certList.certificates :
                        cycle.reply.list.certList.certificates[i].Kid = skidStore[u]

\* a list with the certificates of both registered keys arrived under the
\* signature of another signer: the cycle failed and the mapping it found,
\* which did not have both, is still the published one
C23_Witness ==
    /\ cycle.ran /\ cycle.failed /\ ~cycle.published
    /\ cycle.reply.list.sigLine = SignedBy("other", TrustList(BothCerts))
    /\ skidStore = cycle.before
    /\ skidStore # EmptySkidStore
    /\ Cardinality(DOMAIN skidStore) = 1

\* the certificate parses, its key identifier has the right length and its
\* subject public key is the one of the stored row
Qualifies(cert, row) ==
    /\ cert.RawData.form = "x509"
    /\ Len(cert.Kid) = SkidLen
    /\ row.public_key = PubRaw(cert.RawData.k)

\* C24: after a cycle whose trust list was fetched and verified the published
\* mapping has uuid -> kid for every list entry whose certificate parses,
\* whose KID is 8 bytes long and whose public key is the one of a persisted
\* identity with that uuid, and it has nothing else
C24_PublishedIsExactlyTheMatches ==
    (cycle.ran /\ ~cycle.failed) =>
        /\ \A i \in DOMAIN cycle.reply.list.certList.certificates :
              \A x \in db :
                  Qualifies(cycle.reply.list.certList.certificates[i], x) =>
                      /\ x.uid \in DOMAIN skidStore
                      /\ skidStore[x.uid] = cycle.reply.list.certList.certificates[i].Kid
        /\ \A u \in DOMAIN skidStore :
              /\ Len(skidStore[u]) = SkidLen
              /\ \E i \in DOMAIN cycle.reply.list.certList.certificates :
                    \E x \in db :
                        /\ x.uid = u
                        /\ Qualifies(cycle.reply.list.certList.certificates[i], x)
                        /\ cycle.reply.list.certList.certificates[i].Kid = skidStore[u]

\* a verified list had the certificate of a registered key with an 8-byte
\* key identifier, the database refused the lookup of the key, and the cycle
\* published a mapping without the identity
C24_Witness ==
    /\ cycle.ran /\ ~cycle.failed /\ cycle.store = "error"
    /\ \E x \in db :
          /\ \E i \in DOMAIN cycle.reply.list.certList.certificates :
                Qualifies(cycle.reply.list.certList.certificates[i], x)
          /\ x.uid \notin DOMAIN skidStore

(***************************************************************************)
(* Protocol.StartTransaction and its retries                               *)
(***************************************************************************)
\* what BeginTx returns: a transaction, or a nil *sql.Tx with an error
SqlTx == "*sql.Tx"
NilTx == "nil"
NoStart == [handle |-> NilTx, err |-> NoErr, calls |-> 0]

\* DatabaseManager.StartTransaction, the i-th call to it: no retry of its own
dm_StartTransaction(fault, i) ==
    StoreAnswer(fault, i, [NoStart EXCEPT !.handle = SqlTx], NoStart)

\* A faulty Protocol.StartTransaction that asks the store once
startTransactionAttempt_Once(fault, i) ==
    [dm_StartTransaction(fault, i) EXCEPT !.calls = i + 1]

\* the loop of Protocol.StartTransaction from attempt i on:
\* [handle, err, calls], calls being the calls made to the store
RECURSIVE startTransactionAttempt(_, _)
startTransactionAttempt(fault, i) ==
    LET again(ans) ==
            IF ans.err # NoErr /\ isConnectionNotAvailable(ans.err)
               /\ i + 1 < maxDbConnAttempts
            THEN startTransactionAttempt(fault, i + 1)
            ELSE [ans EXCEPT !.calls = i + 1]
    IN  again(dm_StartTransaction(fault, i))

p_StartTransaction(fault) == startTransactionAttempt(fault, 0)

\* what the last Protocol.StartTransaction met and returned
Started(t, fault, out) ==
    [op |-> "Protocol.StartTransaction", tx |-> t, uid |-> "", key |-> Empty,
     store |-> fault.final, found |-> FALSE, bytes |-> Empty, text |-> "",
     err |-> out.err, transient |-> fault.transient, handle |-> out.handle,
     calls |-> out.calls]

ProtocolStartTransaction(t) ==
    /\ txs[t].state = "none"
    /\ \E fault \in StoreFaults :
          LET started(out) ==
                  /\ txs' = IF out.err = NoErr
                            THEN [txs EXCEPT ![t] = [state |-> "open", rows |-> {},
                                                     updates |-> <<>>]]
                            ELSE txs
                  /\ dbOut' = Started(t, fault, out)
          IN  started(p_StartTransaction(fault))
    /\ UNCHANGED db
    /\ DbUnchanged

StartIdentity(t) ==
    [Uid |-> "u" \o ToString(t), PrivateKey |-> PrivPEM("k" \o ToString(t)),
     PublicKey |-> PubRaw("k" \o ToString(t)), AuthToken |-> "tok" \o ToString(t)]

NextStart ==
    \/ \E t \in TxIds : ProtocolStartTransaction(t)
    \/ \E t \in TxIds : StoreNewIdentity(t, StartIdentity(t))
    \/ \E t \in TxIds, commit \in BOOLEAN : CloseTransaction(t, commit)

SpecStart == InitDB /\ [][NextStart]_vars

\* C25: Protocol.StartTransaction calls the store at most maxDbConnAttempts
\* times; it calls again only after a transient connection-not-available
\* answer, so it returns on the first success or the first other error; after
\* maxDbConnAttempts transient answers it returns the transient error; it
\* never returns a usable handle together with an error
C25_StartTransactionBounded ==
    dbOut.op = "Protocol.StartTransaction" =>
        /\ dbOut.calls \in 1..maxDbConnAttempts
        /\ dbOut.calls =
              IF dbOut.transient < maxDbConnAttempts THEN dbOut.transient + 1
              ELSE maxDbConnAttempts
        /\ dbOut.transient >= maxDbConnAttempts =>
              isConnectionNotAvailable(dbOut.err)
        /\ (dbOut.transient < maxDbConnAttempts /\ dbOut.store = "ok") =>
              /\ dbOut.err = NoErr /\ dbOut.handle = SqlTx
              /\ txs[dbOut.tx].state = "open"
        /\ (dbOut.transient < maxDbConnAttempts /\ dbOut.store = "error") =>
              dbOut.err = ConnectionRefused
        /\ dbOut.err # NoErr => dbOut.handle = NilTx /\ txs[dbOut.tx].state = "none"

\* the store was out of connections on every attempt: the last attempt's
\* error comes back after maxDbConnAttempts calls
C25_Witness ==
    /\ dbOut.op = "Protocol.StartTransaction"
    /\ dbOut.transient >= maxDbConnAttempts
    /\ dbOut.calls = maxDbConnAttempts
    /\ dbOut.err = TooManyConnections
    /\ dbOut.handle = NilTx

(***************************************************************************)
(* Existence checks and store errors                                       *)
(***************************************************************************)
\* C27: ExistsPrivateKey, ExistsPublicKey and ExistsUuidForPublicKey return
\* (false, nil) only when the database answered and no row matches; a store
\* error other than "no rows" is never reported as non-existence
C27_NotFoundOnlyWhenNoRow ==
    (/\ dbOut.op \in {"ExistsPrivateKey", "ExistsPublicKey", "ExistsUuidForPublicKey"}
     /\ ~dbOut.found
     /\ dbOut.err = NoErr) =>
        /\ dbOut.store = "ok"
        /\ dbOut.op = "ExistsUuidForPublicKey" =>
              \A x \in db : x.public_key # dbOut.key
        /\ dbOut.op # "ExistsUuidForPublicKey" =>
              \A x \in db : x.uid # dbOut.uid

\* the database refused the query of ExistsPrivateKey for a stored identity
\* and the call returned (false, nil)
C27_Witness ==
    /\ dbOut.op = "ExistsPrivateKey"
    /\ dbOut.store = "error"
    /\ ~dbOut.found
    /\ dbOut.err = NoErr
    /\ \E x \in db : x.uid = dbOut.uid

(***************************************************************************)
(* The retries inside the DatabaseManager, one database answer at a time   *)
(***************************************************************************)
\* the recursion depth up to which the calls of one operation are counted
MaxAttempts == 6

RetryOps ==
    {"Exists", "ExistsUuidForPublicKey", "ExistsPrivateKey", "ExistsPublicKey",
     "GetUuidForPublicKey", "GetPrivateKey", "GetPublicKey", "GetAuthToken",
     "SetAuthToken", "StoreNewIdentity"}
RetryUuids == {Identity1.Uid, "u3"}
RetryToken == "tokNew"
RetryIdentity(uid) ==
    [Uid |-> uid, PrivateKey |-> Encrypt(PrivPEM("k3")).bytes,
     PublicKey |-> PubRaw("k3"), AuthToken |-> "tokC"]

\* a DatabaseManager call under way or finished: phase is "idle", "query"
\* (the statement is with the database), "sleep" (in isConnectionAvailable,
\* before the method calls itself again) or "returned"; attempts counts the
\* statements sent so far
Calling(op, uid, phase, attempts, final, out) ==
    [op |-> op, tx |-> 0, uid |-> uid, key |-> Empty, store |-> final,
     found |-> out.found, bytes |-> out.bytes, text |-> out.text, err |-> out.err,
     phase |-> phase, attempts |-> attempts]
NothingReturned == [found |-> FALSE, bytes |-> Empty, text |-> "", err |-> NoErr]
Idle == Calling("none", "", "idle", 0, "ok", NothingReturned)

\* what the method returns, and the transaction it leaves, when the database
\* answers the statement (final "ok") or refuses it (final "error")
dmAnswer(op, rows, tx, uid, final) ==
    LET f == [transient |-> 0, final |-> final]
        key == PubRaw("k" \o IF uid = Identity1.Uid THEN "1" ELSE "9")
        exists(out) == [result |-> [NothingReturned EXCEPT !.found = out.found, !.err = out.err],
                        tx |-> tx]
        bytes(out) == [result |-> [NothingReturned EXCEPT !.bytes = out.bytes, !.err = out.err],
                       tx |-> tx]
        text(out) == [result |-> [NothingReturned EXCEPT !.text = out.text, !.err = out.err],
                      tx |-> tx]
        uuid(out) == [result |-> [NothingReturned EXCEPT !.text = out.uid, !.err = out.err],
                      tx |-> tx]
        wrote(out) == [result |-> [NothingReturned EXCEPT !.err = out.err], tx |-> out.tx]
    IN  CASE op = "Exists" -> exists(dm_Exists(rows, uid, f))
          [] op = "ExistsUuidForPublicKey" ->
                exists(dm_ExistsUuidForPublicKey(rows, key, OnlyRowFor(rows, key), f))
          [] op = "ExistsPrivateKey" -> exists(dm_ExistsPrivateKey(rows, uid, f))
          [] op = "ExistsPublicKey" -> exists(dm_ExistsPublicKey(rows, uid, f))
          [] op = "GetUuidForPublicKey" ->
                uuid(dm_GetUuidForPublicKey(rows, key, OnlyRowFor(rows, key), f))
          [] op = "GetPrivateKey" -> bytes(dm_GetPrivateKey(rows, uid, f))
          [] op = "GetPublicKey" -> bytes(dm_GetPublicKey(rows, uid, f))
          [] op = "GetAuthToken" -> text(dm_GetAuthToken(rows, uid, f))
          [] op = "SetAuthToken" -> wrote(dm_SetAuthToken(tx, uid, RetryToken, f))
          [] op = "StoreNewIdentity" ->
                wrote(dm_StoreNewIdentity(rows, tx, RetryIdentity(uid), f))

InitRetry ==
    /\ db = {StoredRow(Identity1)}
    /\ skidStore = EmptySkidStore
    /\ maxCertLoadFailCount = setInterval(FALSE).maxCertLoadFailCount
    /\ identityCache = EmptyCache
    /\ resp = NoResp
    /\ txs = [t \in TxIds |-> IF t = WriterTx
                              THEN [state |-> "open", rows |-> {}, updates |-> <<>>]
                              ELSE NoTx]
    /\ dbOut = Idle
    /\ ReconcilerAtRest /\ ProcessAtRest /\ StepwiseAtRest

\* a caller enters a DatabaseManager method
DmCall ==
    /\ dbOut.phase \in {"idle", "returned"}
    /\ \E op \in RetryOps, uid \in RetryUuids :
          /\ op \in {"SetAuthToken", "StoreNewIdentity"} =>
                Len(txs[WriterTx].updates) < MaxUpdates
          /\ dbOut' = Calling(op, uid, "query", 0, "ok", NothingReturned)
    /\ UNCHANGED <<db, txs>>
    /\ DbUnchanged

\* the database answers the statement: it runs it, refuses it, or has no
\* connection left (too_many_connections), in which case
\* isConnectionAvailable sleeps and says true
DmQuery ==
    /\ dbOut.phase = "query"
    /\ \E answer \in {"ok", "error", "exhausted"} :
          LET sent(n) ==
                  IF answer = "exhausted"
                  THEN /\ isConnectionAvailable(TooManyConnections)
                       /\ dbOut' = [dbOut EXCEPT !.phase = "sleep", !.attempts = n,
                                                 !.store = answer]
                       /\ UNCHANGED txs
                  ELSE LET done(out) ==
                               /\ dbOut' = Calling(dbOut.op, dbOut.uid, "returned", n,
                                                   answer, out.result)
                               /\ txs' = [txs EXCEPT ![WriterTx] = out.tx]
                       IN  done(dmAnswer(dbOut.op, db, txs[WriterTx], dbOut.uid, answer))
          IN  sent(IF dbOut.attempts < MaxAttempts THEN dbOut.attempts + 1
                   ELSE MaxAttempts)
    /\ UNCHANGED db
    /\ DbUnchanged

\* "return dm.<same call>": the method calls itself with the same arguments
DmCallAgain ==
    /\ dbOut.phase = "sleep"
    /\ dbOut' = [dbOut EXCEPT !.phase = "query"]
    /\ UNCHANGED <<db, txs>>
    /\ DbUnchanged

NextRetry == DmCall \/ DmQuery \/ DmCallAgain

\* a goroutine inside a DatabaseManager method keeps running, and the
\* database answers every statement
SpecRetry ==
    InitRetry /\ [][NextRetry]_vars /\ WF_vars(DmQuery) /\ WF_vars(DmCallAgain)

\* C26: every DatabaseManager operation terminates, also when the database
\* keeps answering with a transient connection-exhaustion error: a call
\* whose statement is with the database eventually returns
C26_StoreOperationsTerminate ==
    (dbOut.phase = "query") ~> (dbOut.phase = "returned")

\* ExistsPrivateKey has sent its statement more than maxDbConnAttempts
\* times, was answered too_many_connections every time, and is about to
\* call itself again
C26_Witness ==
    /\ dbOut.op = "ExistsPrivateKey"
    /\ dbOut.phase = "sleep"
    /\ dbOut.store = "exhausted"
    /\ dbOut.attempts > maxDbConnAttempts

(***************************************************************************)
(* registerPublicKey and the CSR it hands to a goroutine                   *)
(***************************************************************************)
RegisterFailures ==
    {"none", "GetSignedKeyRegistration", "GetCSR", "SubmitKeyRegistration"}

\* Protocol.GetCSR: the request made with the key for the uuid
GetCSR(privKeyPEM, uid) == [form |-> "csr", k |-> privKeyPEM.k, uid |-> uid]

\* A faulty registerPublicKey that starts the CSR goroutine before it looks
\* at the result of SubmitKeyRegistration
registerPublicKeyCall_SubmitFirst(privKeyPEM, uid, failAt) ==
    IF failAt = "GetSignedKeyRegistration" \/ failAt = "GetCSR"
    THEN [csr |-> Empty, err |-> initError(failAt), registered |-> FALSE,
          spawned |-> FALSE]
    ELSE IF failAt = "SubmitKeyRegistration"
    THEN [csr |-> Empty, err |-> initError(failAt), registered |-> FALSE,
          spawned |-> TRUE]
    ELSE [csr |-> GetCSR(privKeyPEM, uid), err |-> NoErr, registered |-> TRUE,
          spawned |-> TRUE]

\* IdentityHandler.registerPublicKey up to its return statement: what it will
\* return, whether the backend has the key registration, and whether
\* "go i.submitCSROrLogError(uid, csr)" was executed
registerPublicKeyCall(privKeyPEM, uid, failAt) ==
    IF failAt = "GetSignedKeyRegistration" \/ failAt = "GetCSR"
    THEN [csr |-> Empty, err |-> initError(failAt), registered |-> FALSE,
          spawned |-> FALSE]
    ELSE IF failAt = "SubmitKeyRegistration"
    THEN [csr |-> Empty, err |-> initError(failAt), registered |-> FALSE,
          spawned |-> FALSE]
    ELSE [csr |-> GetCSR(privKeyPEM, uid), err |-> NoErr, registered |-> TRUE,
          spawned |-> TRUE]

RegisterUnchanged ==
    UNCHANGED <<db, txs, dbOut, identityCache, uidCache, skidStore,
                certLoadFailCounter, maxCertLoadFailCount, cycle, resp, rec,
                readers, skidStoreMutex, published, getters, proc, migration>>

\* the caller is not inside registerPublicKey and no earlier call of it for
\* the uuid has succeeded
RegisterPublicKey(uid) ==
    /\ \/ csrJobs[uid].pc = "idle"
       \/ csrJobs[uid].pc = "returned" /\ csrJobs[uid].err # NoErr
    /\ \E failAt \in RegisterFailures :
          LET called(out) ==
                  csrJobs' = [csrJobs EXCEPT ![uid] =
                      [pc |-> IF out.spawned THEN "go" ELSE "returned",
                       csr |-> out.csr, err |-> out.err,
                       registered |-> out.registered,
                       job |-> IF out.spawned THEN "running" ELSE "none"]]
          IN  called(registerPublicKeyCall(GenerateKey(uid), uid, failAt))
    /\ RegisterUnchanged

\* "return csr, nil" after the go statement
RegisterReturns(uid) ==
    /\ csrJobs[uid].pc = "go"
    /\ csrJobs' = [csrJobs EXCEPT ![uid].pc = "returned"]
    /\ RegisterUnchanged

\* submitCSROrLogError: SubmitCSR succeeds, or fails and the error is logged
SubmitCSR(uid) ==
    /\ csrJobs[uid].job = "running"
    /\ \E ok \in BOOLEAN :
          csrJobs' = [csrJobs EXCEPT ![uid].job = IF ok THEN "submitted" ELSE "failed"]
    /\ RegisterUnchanged

NextRegister ==
    \/ \E uid \in UUIDs : RegisterPublicKey(uid)
    \/ \E uid \in UUIDs : RegisterReturns(uid)
    \/ \E uid \in UUIDs : SubmitCSR(uid)

SpecRegister == InitDB /\ [][NextRegister]_vars

\* C28: the CSR goroutine is started only when SubmitKeyRegistration has
\* succeeded; registerPublicKey returns while the goroutine may still run;
\* with the goroutine started it returns the CSR and a nil error, and no
\* outcome of SubmitCSR changes what it returns or has returned
C28_CsrAfterRegistrationOnly ==
    [][\A uid \in UUIDs :
          /\ csrJobs'[uid].job # "none" =>
                /\ csrJobs'[uid].registered
                /\ csrJobs'[uid].err = NoErr
                /\ csrJobs'[uid].csr = GetCSR(GenerateKey(uid), uid)
          /\ csrJobs'[uid].err # NoErr =>
                ~csrJobs'[uid].registered /\ csrJobs'[uid].job = "none"
          /\ csrJobs[uid].job # csrJobs'[uid].job /\ csrJobs[uid].job # "none" =>
                /\ csrJobs'[uid].csr = csrJobs[uid].csr
                /\ csrJobs'[uid].err = csrJobs[uid].err
                /\ csrJobs'[uid].pc = csrJobs[uid].pc
          /\ csrJobs[uid].pc = "go" /\ csrJobs'[uid].pc = "returned" =>
                /\ csrJobs'[uid].csr = csrJobs[uid].csr
                /\ csrJobs'[uid].err = NoErr]_vars

\* SubmitCSR has failed and registerPublicKey has returned the CSR with a
\* nil error, for one uuid after the goroutine ended and for another before
C28_Witness ==
    \E u, v \in UUIDs :
        /\ u # v
        /\ csrJobs[u].job = "failed" /\ csrJobs[u].pc = "returned"
        /\ csrJobs[u].err = NoErr /\ csrJobs[u].csr = GetCSR(GenerateKey(u), u)
        /\ csrJobs[v].job = "running" /\ csrJobs[v].pc = "returned"
        /\ csrJobs[v].registered

(***************************************************************************)
(* Migrate: the version table and the key derivation of the auth tokens    *)
(***************************************************************************)
MigrationID == "cose_identity_db_migration"
MigrationVersion == "2.0"
\* how many times Migrate is run
MaxRuns == 3

\* KeyDerivator.GetDerivedKey: a free constructor
GetDerivedKey(auth) == "kd(" \o auth \o ")"

VersionRow(v) == [id |-> MigrationID, migration_version |-> v]
\* strings.HasPrefix(v, "0.") on the versions of the model
strings_HasPrefix0(v) == v = "0.0"

\* tableExists for the identity table: NewSqlDatabaseInfo has created it
tableExists == TRUE

\* getVersion: [err, MigrationVersion]
getVersion(version, final) ==
    IF final = "error" THEN [err |-> ConnectionRefused, MigrationVersion |-> ""]
    ELSE IF ~tableExists THEN [err |-> NoErr, MigrationVersion |-> "0.0"]
    ELSE IF \E r \in version : r.id = MigrationID
    THEN [err |-> NoErr,
          MigrationVersion |->
              (CHOOSE r \in version : r.id = MigrationID).migration_version]
    ELSE [err |-> NoErr, MigrationVersion |-> "1.0"]

\* createVersionEntry: the INSERT: [err, version]
createVersionEntry(version) ==
    IF \E r \in version : r.id = MigrationID
    THEN [err |-> ErrDuplicateKey, version |-> version]
    ELSE [err |-> NoErr, version |-> version \cup {VersionRow(MigrationVersion)}]

\* updateVersion: the INSERT for a version 0.x, else the UPDATE, which
\* changes the rows that have the id: [err, version]
updateVersion(version, v, final) ==
    IF final = "error" THEN [err |-> ConnectionRefused, version |-> version]
    ELSE IF strings_HasPrefix0(v) THEN createVersionEntry(version)
    ELSE [err |-> NoErr,
          version |-> {IF r.id = MigrationID
                       THEN [r EXCEPT !.migration_version = MigrationVersion]
                       ELSE r : r \in version}]

\* the loop of encryptTokens over the rows the SELECT returned: [err, tx]
RECURSIVE encryptLoop(_, _, _)
encryptLoop(tx, rows, fault) ==
    LET next(set, x) ==
            IF set.err # NoErr THEN set
            ELSE encryptLoop(set.tx, rows \ {x}, fault)
        one(x) ==
            IF x.auth_token = "" THEN [err |-> "empty auth token", tx |-> tx]
            ELSE next(dm_SetAuthToken(tx, x.uid, GetDerivedKey(x.auth_token), fault), x)
    IN  IF rows = {} THEN [err |-> NoErr, tx |-> tx]
        ELSE one(CHOOSE x \in rows : TRUE)

\* encryptTokens: its own transaction, committed when the loop went through:
\* [err, committed]
encryptTokens(committed, fault) ==
    LET closed(looped) ==
            IF looped.err # NoErr THEN [err |-> looped.err, committed |-> committed]
            ELSE dm_CloseTransaction(committed, looped.tx, TRUE)
    IN  closed(encryptLoop([state |-> "open", rows |-> {}, updates |-> <<>>],
                           committed, fault))

MigrateSteps == {"getVersion", "migrateFileToDB", "encryptTokens", "updateVersion"}
MigrateFailures == MigrateSteps \cup {"none"}
\* the database refuses the statements of the step named failAt; the
\* step "none" stands for the whole run
FaultAt(step, failAt) ==
    [transient |-> 0,
     final |-> IF step = failAt \/ (step = "none" /\ failAt # "none")
               THEN "error" ELSE "ok"]

\* Migrate: [err, committed, version, read], read being the version that
\* getVersion returned
Migrate(committed, version, identities, failAt) ==
    LET result(err, rows, vs, read) ==
            [err |-> err, committed |-> rows, version |-> vs, read |-> read]
        updated(rows, read, upd) == result(upd.err, rows, upd.version, read)
        encrypted(read, v, enc) ==
            IF enc.err # NoErr THEN result(enc.err, enc.committed, version, read)
            ELSE updated(enc.committed, read,
                         updateVersion(version, v, FaultAt("updateVersion", failAt).final))
        tokens(rows, read, v) ==
            IF v = "1.0"
            THEN encrypted(read, v, encryptTokens(rows, FaultAt("encryptTokens", failAt)))
            ELSE updated(rows, read,
                         updateVersion(version, v, FaultAt("updateVersion", failAt).final))
        files(read, mig) ==
            IF mig.err # NoErr THEN result(mig.err, mig.committed, version, read)
            ELSE tokens(mig.committed, read, "1.0")
        versioned(got) ==
            IF got.err # NoErr THEN result(got.err, committed, version, "")
            ELSE IF got.MigrationVersion = MigrationVersion
            THEN result(NoErr, committed, version, got.MigrationVersion)
            ELSE IF got.MigrationVersion = "0.0"
            THEN files(got.MigrationVersion,
                       migrateIdentities(committed, identities,
                                         FaultAt("migrateFileToDB", failAt)))
            ELSE tokens(committed, got.MigrationVersion, got.MigrationVersion)
    IN  versioned(getVersion(version, FaultAt("getVersion", failAt).final))

\* rows as the versions before 2.0 stored them, one of them without a token,
\* and rows whose tokens have been through the key derivation
PlainTokens == {DbIdentityA.AuthToken, DbIdentityB.AuthToken}
PlainRows ==
    {IdentityRow(DbIdentityA), IdentityRow(DbIdentityB),
     IdentityRow([DbIdentityB EXCEPT !.Uid = "u3", !.AuthToken = ""])}
DerivedRows ==
    {[x EXCEPT !.auth_token = GetDerivedKey(x.auth_token)] :
        x \in {IdentityRow(DbIdentityA), IdentityRow(DbIdentityB)}}
FileLists == {<<>>, <<DbIdentityA>>, <<DbIdentityA, DbIdentityB>>}

\* a database the file migration has not reached (row 0.0), one with plain
\* tokens (row 1.0 or no row), one already migrated (row 2.0)
InitMigrate ==
    /\ \/ migration = [version |-> {VersionRow("0.0")}, runs |-> 0] /\ db = {}
       \/ /\ migration \in {[version |-> {}, runs |-> 0],
                            [version |-> {VersionRow("1.0")}, runs |-> 0]}
          /\ db \in SUBSET PlainRows
       \/ /\ migration = [version |-> {VersionRow(MigrationVersion)}, runs |-> 0]
          /\ db \in SUBSET DerivedRows
    /\ skidStore = EmptySkidStore
    /\ maxCertLoadFailCount = setInterval(FALSE).maxCertLoadFailCount
    /\ identityCache = EmptyCache
    /\ resp = NoResp
    /\ getters = NoGetters /\ proc = ProcStart /\ csrJobs = NoCsrJobs
    /\ StoreAtRest /\ ReconcilerAtRest /\ StepwiseAtRest

\* the service starts and runs Migrate
RunMigrate ==
    /\ migration.runs < MaxRuns
    /\ \E identities \in FileLists, failAt \in MigrateFailures :
          LET ran(out) ==
                  /\ db' = out.committed
                  /\ migration' = [version |-> out.version, runs |-> migration.runs + 1]
                  /\ dbOut' = Called("Migrate", 0, "", Empty, FaultAt("none", failAt),
                                     out.err = NoErr, Empty, out.read, out.err)
          IN  ran(Migrate(db, migration.version, identities, failAt))
    /\ UNCHANGED <<txs, identityCache, uidCache, skidStore, certLoadFailCounter,
                   maxCertLoadFailCount, cycle, resp, rec, readers, skidStoreMutex,
                   published, getters, proc, csrJobs>>

NextMigrate == RunMigrate

SpecMigrate == InitMigrate /\ [][NextMigrate]_vars

\* C29: after a Migrate run that returned nil the version table has version
\* 2.0 for the migration id, and over any sequence of runs every stored auth
\* token has been through the key derivation at most once
C29_MigrationIsOneShot ==
    /\ (dbOut.op = "Migrate" /\ dbOut.err = NoErr) =>
          VersionRow(MigrationVersion) \in migration.version
    /\ \A x \in db :
          x.auth_token \in PlainTokens \cup {GetDerivedKey(t) : t \in PlainTokens} \cup {""}

\* two runs on a database without a version row have both returned nil, the
\* version table still has no row, and a token is the derivation of a
\* derived token
C29_Witness ==
    /\ dbOut.op = "Migrate" /\ dbOut.err = NoErr
    /\ migration = [version |-> {}, runs |-> 2]
    /\ \E x \in db, t \in PlainTokens :
          x.auth_token = GetDerivedKey(GetDerivedKey(t))

(***************************************************************************)
(* The reconciler over time: ticks for as long as the process runs         *)
(***************************************************************************)
\* what the trust list server answers in these runs
LiveReplies ==
    {GoodReply(certs) :
        certs \in {<<>>, <<Certificate(Kid1, X509("k1"))>>,
                   <<Certificate(Kid2, X509("k2")), Certificate(Kid1, X509("k1"))>>,
                   <<Certificate(KidShort, X509("k1"))>>}}
       \cup {[GoodReply(BothCerts) EXCEPT !.list.err = "timeout"]}

\* loadSKIDs runs to its end and the goroutine goes back to the tick channel
LiveCycleEnds ==
    /\ proc.reconciler = "cycling"
    /\ \E reply \in LiveReplies, fault \in DbFaults :
          LET cycled(out) ==
                  /\ out.failed =>
                        certLoadFailCounter < maxCertLoadFailCount + MaxExtraFails
                  /\ skidStore' = out.skidStore
                  /\ certLoadFailCounter' = out.certLoadFailCounter
                  /\ uidCache' = out.uidCache
                  /\ cycle' = [ran |-> TRUE, failed |-> out.failed,
                               published |-> out.published, before |-> skidStore,
                               failsBefore |-> certLoadFailCounter,
                               reply |-> reply, store |-> fault.final]
          IN  cycled(loadSKIDs(skidStore, certLoadFailCounter, maxCertLoadFailCount,
                               uidCache, db, reply, fault))
    /\ proc' = [proc EXCEPT !.reconciler = "waiting"]
    /\ ShutdownUnchanged

NextLive == Tick \/ LiveCycleEnds

\* time.Tick keeps delivering ticks and every loadSKIDs cycle comes to its end
SpecLive ==
    InitTrust /\ [][NextLive]_vars /\ WF_vars(Tick) /\ WF_vars(LiveCycleEnds)

\* the list of the last cycle was validly signed and had a parseable
\* certificate of the identity's public key with the 8-byte key identifier
ServedFor(identity, kid) ==
    cycle.ran =>
        /\ ListVerified(cycle.reply)
        /\ \E i \in DOMAIN cycle.reply.list.certList.certificates :
              /\ Qualifies(cycle.reply.list.certList.certificates[i], StoredRow(identity))
              /\ cycle.reply.list.certList.certificates[i].Kid = kid

\* C30: the identity u1 is persisted; if from some point on every trust list
\* served is validly signed and has a parseable certificate of its public key
\* with the key identifier Kid1, then from some point on GetSKID(u1) returns
\* Kid1 (no sign request of u1 fails with SKID unknown any more)
C30_KidEventuallyKnown ==
    (<>[]ServedFor(Identity1, Kid1)) =>
        <>[](GetSKID(skidStore, Identity1.Uid) = [err |-> NoErr, skid |-> Kid1])

\* the reconciler is back at the tick channel after a cycle that had a good
\* list with the certificate of u1, during which the database refused the
\* lookup of the public key: the cycle did not fail, and GetSKID(u1) fails
C30_Witness ==
    /\ StoredRow(Identity1) \in db
    /\ proc.reconciler = "waiting"
    /\ cycle.ran /\ ~cycle.failed /\ cycle.store = "error"
    /\ ServedFor(Identity1, Kid1)
    /\ GetSKID(skidStore, Identity1.Uid).err # NoErr

=============================================================================
